---- MODULE Spec2Model ----
(***************************************************************************)
(* A model of the cognition core of hermitcrab: the category-typed memory  *)
(* store (agent/memory.py) and the phased agent loop with its session      *)
(* lifecycle and background cognition (agent/loop.py).                     *)
(*                                                                         *)
(* Text values (titles, contents, ids, tags) are sequences of              *)
(* one-character strings, so that strip() and slugify are computed and not *)
(* assumed.  Enumerations (category, status, role, job class) are strings. *)
(***************************************************************************)
EXTENDS Integers, Sequences, FiniteSets, TLC

VARIABLES
    files,       \* memory/: path -> stored item (frontmatter + body)
    now,         \* datetime.now(): the wall clock, in seconds
    memResult,   \* what the last memory-store call did: [op, cat, res]
    cfg,         \* AgentLoop construction: max_iterations, _job_models, auto_promote
    timers,      \* AgentLoop._session_timers, in insertion order: <<[key, t], ...>>
    sessions,    \* session key -> Session.messages of the session stored for the key
    gen,         \* session key -> how many Session objects of the key were cleared
    fg,          \* the foreground coroutine: where _process_message stands
    turns,       \* number of inbound messages taken so far
    tasks,       \* AgentLoop._background_tasks, in creation order
    endLog,      \* history: the session ends started, in order
    llmLog,      \* history: the (job class, model) pairs provider.chat was called with
    lastTurn,    \* history: what the last completed turn did
    effects,     \* what background cognition wrote: the entries given to the journal,
                 \* journal/ (date -> file text, followed in SpecJournal), edits;
                 \* the promoter's workspace files, proposals waiting to be applied,
                 \* objects of the last response that were skipped, and last edit
                 \* (followed in SpecPromote)
                 \* (followed in SpecPromote); history: the outcome of the last
                 \* model call a journal or distillation task made, and the
                 \* item the last typed write returned with what read_memory
                 \* by its id gave afterwards (followed in SpecRoundTrip); a
                 \* second coroutine, in process_direct (followed in SpecOverlap);
                 \* the bus and the position of run() (followed in SpecRun)
    escaped      \* history: a background exception reached the foreground

memVars == <<files, now, memResult>>

loopVars == <<cfg, timers, sessions, gen, fg, turns, tasks, endLog, llmLog,
              lastTurn, effects, escaped>>

vars == <<files, now, memResult, cfg, timers, sessions, gen, fg, turns, tasks,
          endLog, llmLog, lastTurn, effects, escaped>>

-----------------------------------------------------------------------------
(* Bounds of the model *)

MaxFiles == 2
MaxClock == 1

(* Program constants *)

SlugMax == 50

-----------------------------------------------------------------------------
(* Text helpers *)

\* Python None where a text value is optional
NoneS == <<"None">>

Whitespace == {" "}

LowerAlphabet ==
    <<"a", "b", "c", "d", "e", "f", "g", "h", "i", "j", "k", "l", "m",
      "n", "o", "p", "q", "r", "s", "t", "u", "v", "w", "x", "y", "z">>

UpperAlphabet ==
    <<"A", "B", "C", "D", "E", "F", "G", "H", "I", "J", "K", "L", "M",
      "N", "O", "P", "Q", "R", "S", "T", "U", "V", "W", "X", "Y", "Z">>

\* the characters the pattern \w matches
WordChars ==
    {LowerAlphabet[i] : i \in 1..26} \cup {UpperAlphabet[i] : i \in 1..26}
        \cup {"0", "1", "2", "3", "4", "5", "6", "7", "8", "9", "_"}

RECURSIVE LStrip(_)
LStrip(s) ==
    IF s = <<>> THEN s
    ELSE IF Head(s) \in Whitespace THEN LStrip(Tail(s)) ELSE s

RECURSIVE RStrip(_)
RStrip(s) ==
    IF s = <<>> THEN s
    ELSE IF s[Len(s)] \in Whitespace THEN RStrip(SubSeq(s, 1, Len(s) - 1)) ELSE s

\* str.strip()
Strip(s) == RStrip(LStrip(s))

\* str.lower() on the model's alphabet
LowerChar(ch) ==
    IF \E i \in 1..26 : UpperAlphabet[i] = ch
    THEN LowerAlphabet[CHOOSE i \in 1..26 : UpperAlphabet[i] = ch]
    ELSE ch

Lower(s) == [i \in 1..Len(s) |-> LowerChar(s[i])]

Take(s, n) == SubSeq(s, 1, IF Len(s) < n THEN Len(s) ELSE n)

RECURSIVE CollapseSeps(_)
CollapseSeps(s) ==
    IF s = <<>> THEN <<>>
    ELSE IF Head(s) \in Whitespace \cup {"-"}
         THEN IF Tail(s) # <<>> /\ Head(Tail(s)) \in Whitespace \cup {"-"}
              THEN CollapseSeps(Tail(s))
              ELSE <<"-">> \o CollapseSeps(Tail(s))
         ELSE <<Head(s)>> \o CollapseSeps(Tail(s))

\* MemoryStore._slugify
Slugify(text) ==
    LET t1 == Strip(Lower(text))
        t2 == SelectSeq(t1, LAMBDA ch : ch \in WordChars \cup Whitespace \cup {"-"})
    IN  Take(CollapseSeps(t2), SlugMax)

\* MemoryStore._generate_id: the digest of "title:content".  The digest is
\* modelled as injective on the model's inputs: the id is the hashed text.
GenerateId(title, content) == title \o <<":">> \o content

-----------------------------------------------------------------------------
(* Memory store: files *)

MemoryCategory == {"facts", "decisions", "goals", "tasks", "reflections"}

TaskStatus == {"open", "in_progress", "done", "deferred"}

Uuids == {0, 1}

\* MemoryStore._generate_filename: timestamp, 12 hex random characters,
\* category and slug; n is the collision suffix _write_file appends (0: none);
\* archived tells the archived/ subdirectory.
Filename(title, category, created_at, uuid) ==
    [cat |-> category, ts |-> created_at, uuid |-> uuid,
     slug |-> Slugify(title), n |-> 0, archived |-> FALSE]

\* The keys MemoryItem.to_frontmatter writes for a category, besides the
\* common ones, and the default of those it always writes.
FrontmatterKeys(category) ==
    CASE category = "tasks" -> {"status", "assignee", "deadline", "priority", "related_goal"}
      [] category = "goals" -> {"status", "priority", "horizon"}
      [] category = "facts" -> {"source"}
      [] category = "decisions" -> {"status", "supersedes", "rationale", "scope"}
      [] category = "reflections" -> {"context"}

FrontmatterDefaults(category) ==
    CASE category = "tasks" -> [status |-> "open", assignee |-> <<>>]
      [] category = "goals" -> [status |-> "active"]
      [] category = "decisions" -> [status |-> "active"]
      [] OTHER -> <<>>

\* MemoryItem.to_frontmatter followed by frontmatter.dumps: what reaches disk.
ToFrontmatter(item) ==
    LET keys == FrontmatterKeys(item.category)
        dflt == FrontmatterDefaults(item.category)
        dom  == (DOMAIN item.metadata \cap keys) \cup DOMAIN dflt
    IN  [id |-> item.id, title |-> item.title, created_at |-> item.created_at,
         updated_at |-> item.updated_at, type |-> item.category, tags |-> item.tags,
         meta |-> [k \in dom |-> IF k \in DOMAIN item.metadata
                                 THEN item.metadata[k] ELSE dflt[k]],
         content |-> item.content]

\* MemoryStore._parse_frontmatter: the item read back from a file at path p.
ParseFrontmatter(post, p) ==
    [id |-> post.id, category |-> post.type, title |-> post.title,
     content |-> Strip(post.content), created_at |-> post.created_at,
     updated_at |-> post.updated_at, tags |-> post.tags,
     metadata |-> post.meta, path |-> p]

\* Lexicographic order of the file names of one stem family
PathLess(p, q) ==
    \/ p.ts < q.ts
    \/ p.ts = q.ts /\ p.uuid < q.uuid
    \/ p.ts = q.ts /\ p.uuid = q.uuid /\ p.n < q.n

\* MemoryStore.read_memory(category, id=id): the files of the category
\* directory (archived/ is not globbed) whose id matches, newest first by
\* updated_at, ties in sorted path order; the first one or none.
ReadMemory(fs, category, id) ==
    LET cand == {p \in DOMAIN fs : p.cat = category /\ ~p.archived /\ fs[p].id = id}
    IN  {p \in cand : \A q \in cand \ {p} :
            \/ fs[p].updated_at > fs[q].updated_at
            \/ fs[p].updated_at = fs[q].updated_at /\ PathLess(p, q)}

\* The collision loop of _write_file: the first free name, or the name of an
\* existing file with the same id (which is then overwritten).
RECURSIVE ResolvePath(_, _, _)
ResolvePath(fs, p, id) ==
    IF p \notin DOMAIN fs THEN p
    ELSE IF fs[p].id = id THEN p
    ELSE ResolvePath(fs, [p EXCEPT !.n = p.n + 1], id)

\* MemoryStore._write_file(item, overwrite=False)
WriteFile(fs, item, uuid) ==
    LET p == ResolvePath(fs, Filename(item.title, item.category, item.created_at, uuid), item.id)
    IN  [q \in DOMAIN fs \cup {p} |-> IF q = p THEN ToFrontmatter(item) ELSE fs[q]]

\* MemoryStore._write_file(item, overwrite=True) for an item read from path p
OverwriteFile(fs, item, p) == [fs EXCEPT ![p] = ToFrontmatter(item)]

NewItem(category, title, content, tags, metadata) ==
    [id |-> GenerateId(title, content), category |-> category, title |-> title,
     content |-> Strip(content), created_at |-> now, updated_at |-> now,
     tags |-> tags, metadata |-> metadata]

Result(op, cat, res) == [op |-> op, cat |-> cat, res |-> res]

RoomForFile == Cardinality(DOMAIN files) < MaxFiles

-----------------------------------------------------------------------------
(* Memory store: operations *)

\* MemoryStore.write_reflection
WriteReflection(title, content, tags, context, uuid) ==
    /\ RoomForFile
    /\ IF Strip(content) = <<>>
       THEN /\ memResult' = Result("write_reflection", "reflections", "ValueError")
            /\ UNCHANGED files
       ELSE /\ files' = WriteFile(files,
                            NewItem("reflections", title, content, tags,
                                    [context |-> context]), uuid)
            /\ memResult' = Result("write_reflection", "reflections", "ok")
    /\ UNCHANGED now

\* MemoryStore.write_decision
WriteDecision(title, content, tags, status, supersedes, rationale, scope, uuid) ==
    /\ RoomForFile
    /\ IF Strip(content) = <<>> \/ status \notin {"active", "superseded"}
       THEN /\ memResult' = Result("write_decision", "decisions", "ValueError")
            /\ UNCHANGED files
       ELSE /\ files' = WriteFile(files,
                            NewItem("decisions", title, content, tags,
                                    [status |-> status, supersedes |-> supersedes,
                                     rationale |-> rationale, scope |-> scope]), uuid)
            /\ memResult' = Result("write_decision", "decisions", "ok")
    /\ UNCHANGED now

\* MemoryStore.write_fact
WriteFact(title, content, tags, confidence, source, uuid) ==
    /\ RoomForFile
    /\ IF Strip(content) = <<>>
       THEN /\ memResult' = Result("write_fact", "facts", "ValueError")
            /\ UNCHANGED files
       ELSE /\ files' = WriteFile(files,
                            NewItem("facts", title, content, tags,
                                    [confidence |-> confidence, source |-> source]), uuid)
            /\ memResult' = Result("write_fact", "facts", "ok")
    /\ UNCHANGED now

\* MemoryStore.write_goal
WriteGoal(title, content, tags, status, priority, horizon, uuid) ==
    /\ RoomForFile
    /\ IF Strip(content) = <<>> \/ status \notin {"active", "achieved", "abandoned"}
       THEN /\ memResult' = Result("write_goal", "goals", "ValueError")
            /\ UNCHANGED files
       ELSE /\ files' = WriteFile(files,
                            NewItem("goals", title, content, tags,
                                    [status |-> status, priority |-> priority,
                                     horizon |-> horizon]), uuid)
            /\ memResult' = Result("write_goal", "goals", "ok")
    /\ UNCHANGED now

\* The two checks of write_task: blank content, missing or blank assignee
WriteTaskRaises(content, assignee) ==
    Strip(content) = <<>> \/ assignee = NoneS \/ Strip(assignee) = <<>>

\* The files after write_task has written its item
WriteTaskFiles(fs, title, content, assignee, tags, status, deadline, priority, related_goal, uuid) ==
    WriteFile(fs, NewItem("tasks", title, content, tags,
                          [status |-> status, assignee |-> Strip(assignee),
                           deadline |-> deadline, priority |-> priority,
                           related_goal |-> related_goal]), uuid)

\* MemoryStore.write_task
WriteTask(title, content, assignee, tags, status, deadline, priority, related_goal, uuid) ==
    /\ RoomForFile
    /\ IF WriteTaskRaises(content, assignee)
       THEN /\ memResult' = Result("write_task", "tasks", "ValueError")
            /\ UNCHANGED files
       ELSE /\ files' = WriteTaskFiles(files, title, content, assignee, tags, status,
                                       deadline, priority, related_goal, uuid)
            /\ memResult' = Result("write_task", "tasks", "ok")
    /\ UNCHANGED now

\* update_memory without its append-only rule
UpdateRejectedNever(category) == FALSE

\* The rule of update_memory that rejects a category
UpdateRejected(category) == category = "reflections"

\* MemoryStore.update_memory(category, id, content, title, tags, **metadata_updates);
\* NoneS for an argument that is not given, upd the keyword updates.
UpdateMemory(category, id, content, title, tags, upd) ==
    LET found == ReadMemory(files, category, id) IN
    /\ IF found = {}
       THEN /\ memResult' = Result("update_memory", category, "None")
            /\ UNCHANGED files
       ELSE IF UpdateRejected(category)
       THEN /\ memResult' = Result("update_memory", category, "ValueError")
            /\ UNCHANGED files
       ELSE LET p    == CHOOSE q \in found : TRUE
                item == ParseFrontmatter(files[p], p)
                new  == [item EXCEPT
                           !.title = IF title = NoneS THEN @ ELSE title,
                           !.content = IF content = NoneS THEN @ ELSE Strip(content),
                           !.tags = IF tags = NoneS THEN @ ELSE tags,
                           !.metadata = [k \in DOMAIN @ \cup DOMAIN upd |->
                                            IF k \in DOMAIN upd THEN upd[k] ELSE @[k]],
                           !.updated_at = now]
            IN  /\ files' = OverwriteFile(files, new, p)
                /\ memResult' = Result("update_memory", category, "ok")
    /\ UNCHANGED now

\* valid_transitions of update_task_status
ValidTransitions(old_status) ==
    CASE old_status = "open" -> {"in_progress", "done", "deferred"}
      [] old_status = "in_progress" -> {"done", "deferred"}
      [] old_status = "done" -> {}
      [] old_status = "deferred" -> {"open", "in_progress"}

\* An update_task_status that refuses a transition outside the graph
TransitionRefused(old_status, new_status) == new_status \notin ValidTransitions(old_status)

\* What update_task_status does with a transition outside the graph besides
\* logging a warning: it does not reject it
TransitionRejected(old_status, new_status) == FALSE

\* MemoryStore.update_task_status(task_id, new_status), new_status a str;
\* its update_memory(TASKS, task_id, status=new_status.value) is inlined
UpdateTaskStatus(task_id, new_status) ==
    LET found == ReadMemory(files, "tasks", task_id) IN
    /\ IF new_status \notin TaskStatus
       THEN /\ memResult' = Result("update_task_status", "tasks", "ValueError")
            /\ UNCHANGED files
       ELSE IF found = {}
       THEN /\ memResult' = Result("update_task_status", "tasks", "None")
            /\ UNCHANGED files
       ELSE LET p    == CHOOSE q \in found : TRUE
                item == ParseFrontmatter(files[p], p)
                old_status == item.metadata["status"]
                new  == [item EXCEPT
                           !.metadata = [k \in DOMAIN @ \cup {"status"} |->
                                            IF k = "status" THEN new_status ELSE @[k]],
                           !.updated_at = now]
            IN  IF old_status \notin TaskStatus \/ TransitionRejected(old_status, new_status)
                THEN /\ memResult' = Result("update_task_status", "tasks", "ValueError")
                     /\ UNCHANGED files
                ELSE /\ files' = OverwriteFile(files, new, p)
                     /\ memResult' = Result("update_task_status", "tasks", "ok")
    /\ UNCHANGED now

\* A delete_memory whose rule covers reflections only
DeleteRejectedOnlyReflections(category) == category = "reflections"

\* The rule of delete_memory that rejects a category
DeleteRejected(category) == category \in {"decisions", "reflections"}

\* An archive step that unlinks the file
ArchiveFileUnlink(fs, p) == [r \in DOMAIN fs \ {p} |-> fs[r]]

\* MemoryStore._archive_task / _archive_goal: rename into archived/
ArchiveFile(fs, p) ==
    LET q == [p EXCEPT !.archived = TRUE]
    IN  [r \in (DOMAIN fs \ {p}) \cup {q} |-> IF r = q THEN fs[p] ELSE fs[r]]

\* MemoryStore.delete_memory(category, id)
DeleteMemory(category, id) ==
    LET found == ReadMemory(files, category, id) IN
    /\ IF found = {}
       THEN /\ memResult' = Result("delete_memory", category, "False")
            /\ UNCHANGED files
       ELSE IF DeleteRejected(category)
       THEN /\ memResult' = Result("delete_memory", category, "ValueError")
            /\ UNCHANGED files
       ELSE LET p == CHOOSE q \in found : TRUE
                status == IF "status" \in DOMAIN files[p].meta
                          THEN files[p].meta["status"] ELSE "none"
            IN  IF \/ category = "tasks" /\ status = "done"
                   \/ category = "goals" /\ status = "achieved"
                THEN /\ files' = ArchiveFile(files, p)
                     /\ memResult' = Result("delete_memory", category, "True")
                ELSE /\ files' = [r \in DOMAIN files \ {p} |-> files[r]]
                     /\ memResult' = Result("delete_memory", category, "True")
    /\ UNCHANGED now

\* The wall clock of the memory store advances
TickMem ==
    /\ now < MaxClock
    /\ now' = now + 1
    /\ UNCHANGED <<files, memResult>>

\* The ids a caller can name: those of the stored items and one that is unknown
KnownIds(category) == {files[p].id : p \in {q \in DOMAIN files : q.cat = category}}

UnknownId == <<"?">>

\* os.urandom(6) values that do not repeat one already used in a file name
FreshUuids == {u \in Uuids : \A p \in DOMAIN files : p.uuid # u \/ p.ts # now}

-----------------------------------------------------------------------------
(* Agent loop: program constants and construction *)

INACTIVITY_TIMEOUT_S == 1800

TOOL_RESULT_MAX_CHARS == 500

\* AgentLoop.__init__: memory_window
MemoryWindow == 100

\* A timestamp key that is absent from a message
NoTimestamp == -1

\* Python truthiness of an optional str
Truthy(s) == s # NoneS /\ s # <<>>

JobClass ==
    {"interactive_response", "journal_synthesis", "distillation", "reflection",
     "summarisation"}

\* self.model: the primary model
PrimaryModel == <<"p">>

\* AgentJobModels.get_model(job_class, primary_model) on the configuration c
GetModel(c, job_class, primary_model) ==
    LET job_model == IF job_class \in DOMAIN c THEN c[job_class] ELSE NoneS
    IN  IF Truthy(job_model) /\ Strip(job_model) # <<>>
        THEN Strip(job_model)
        ELSE IF job_class = "distillation" THEN NoneS
        ELSE primary_model

\* AgentJobModels(): the field defaults
AgentJobModels ==
    [interactive_response |-> <<>>, journal_synthesis |-> NoneS, distillation |-> NoneS,
     reflection |-> NoneS, summarisation |-> NoneS]

\* AgentLoop.__init__: the _job_models built when job_models is not given
DefaultJobModels ==
    [j \in JobClass |-> IF j = "distillation" THEN NoneS ELSE PrimaryModel]

\* _get_model_for_job with the fallback applied to every job class
GetModelForJobFallback(job_models, job_class) ==
    LET model == IF job_class \in DOMAIN job_models THEN job_models[job_class] ELSE NoneS
    IN  IF model = NoneS THEN PrimaryModel ELSE model

\* AgentLoop._get_model_for_job
GetModelForJob(job_models, job_class) ==
    LET model == IF job_class \in DOMAIN job_models THEN job_models[job_class] ELSE NoneS
    IN  IF model = NoneS /\ job_class # "distillation" THEN PrimaryModel ELSE model

\* AgentLoop.__init__: the model of the reflection promoter
PromoterModel(job_models) ==
    LET m == GetModelForJob(job_models, "reflection")
    IN  IF Truthy(m) THEN m ELSE PrimaryModel

-----------------------------------------------------------------------------
(* Agent loop: texts *)

\* the first index i >= from with s[i] = ch, or 0
IndexOf(s, ch, from) ==
    LET hits == {i \in from..Len(s) : s[i] = ch}
    IN  IF hits = {} THEN 0 ELSE CHOOSE i \in hits : \A j \in hits : i <= j

\* re.sub(r"<think>[\s\S]*?</think>", "", text); the two tags are single tokens
RECURSIVE RemoveThink(_)
RemoveThink(s) ==
    LET i == IndexOf(s, "<think>", 1)
        j == IF i = 0 THEN 0 ELSE IndexOf(s, "</think>", i + 1)
    IN  IF i = 0 \/ j = 0 THEN s
        ELSE SubSeq(s, 1, i - 1) \o RemoveThink(SubSeq(s, j + 1, Len(s)))

\* AgentLoop._strip_think
StripThink(text) ==
    IF ~Truthy(text) THEN NoneS
    ELSE LET s == Strip(RemoveThink(text)) IN IF s = <<>> THEN NoneS ELSE s

\* pattern in s
Contains(s, pat) ==
    \E i \in 1..(Len(s) - Len(pat) + 1) : SubSeq(s, i, i + Len(pat) - 1) = pat

\* The fixed replies of the loop, each one token
NewSessionText == <<"New session started.">>

HelpText == <<"hermitcrab commands">>

NoResponseText == <<"I've completed processing but have no response to give.">>

BudgetText(max_iterations) ==
    <<"I reached the maximum number of tool call iterations (", ToString(max_iterations),
      ") without completing the task. You can try breaking the task into smaller steps.">>

TruncatedSuffix == <<"\n... (truncated)">>

-----------------------------------------------------------------------------
(* Agent loop: messages, sessions, timers *)

Message(role, content, tool_calls, name) ==
    [role |-> role, content |-> content, tool_calls |-> tool_calls, name |-> name,
     tool_call_id |-> <<>>, reasoning_content |-> FALSE, timestamp |-> NoTimestamp]

SystemPrompt == Message("system", <<"system prompt">>, <<>>, <<>>)

\* ContextBuilder.build_messages: system preamble, history, current user turn
BuildMessages(history, current_message) ==
    <<SystemPrompt>> \o history \o <<Message("user", current_message, <<>>, <<>>)>>

\* ContextBuilder.add_assistant_message
AddAssistantMessage(messages, content, tool_calls, reasoning_content) ==
    Append(messages, [Message("assistant", content, tool_calls, <<>>)
                        EXCEPT !.reasoning_content = reasoning_content])

\* ContextBuilder.add_tool_result
AddToolResult(messages, tool_call_id, tool_name, result) ==
    Append(messages, [Message("tool", result, <<>>, tool_name)
                        EXCEPT !.tool_call_id = tool_call_id])

RECURSIVE DropOrphans(_)
DropOrphans(msgs) ==
    IF msgs # <<>> /\ Head(msgs).role = "tool" THEN DropOrphans(Tail(msgs)) ELSE msgs

\* Session.get_history(max_messages): the last max_messages records, without
\* leading tool records, as the provider sees them (no timestamp)
GetHistory(msgs, max_messages) ==
    LET from == IF Len(msgs) > max_messages THEN Len(msgs) - max_messages + 1 ELSE 1
        kept == DropOrphans(SubSeq(msgs, from, Len(msgs)))
    IN  [i \in 1..Len(kept) |-> [kept[i] EXCEPT !.timestamp = NoTimestamp]]

\* The entry _save_turn stores for a message at time t
SaveEntry(m, t) ==
    LET cut == IF m.role = "tool" /\ Len(m.content) > TOOL_RESULT_MAX_CHARS
               THEN SubSeq(m.content, 1, TOOL_RESULT_MAX_CHARS) \o TruncatedSuffix
               ELSE m.content
    IN  [m EXCEPT !.reasoning_content = FALSE,
                  !.content = cut,
                  !.timestamp = IF @ = NoTimestamp THEN t ELSE @]

\* AgentLoop._save_turn: the session's messages after messages[skip:] are appended
SaveTurn(session_messages, messages, skip, t) ==
    session_messages \o
        [i \in 1..(IF Len(messages) > skip THEN Len(messages) - skip ELSE 0) |->
            SaveEntry(messages[skip + i], t)]

\* _session_timers.get(key); NoTimestamp for None
TimerGet(tm, key) ==
    IF \E i \in 1..Len(tm) : tm[i].key = key
    THEN tm[CHOOSE i \in 1..Len(tm) : tm[i].key = key].t
    ELSE NoTimestamp

\* A timer that is set when the key is first seen and never reset
UpdateSessionTimerOnce(tm, key, t) ==
    IF \E i \in 1..Len(tm) : tm[i].key = key THEN tm
    ELSE Append(tm, [key |-> key, t |-> t])

\* AgentLoop._update_session_timer: _session_timers[key] = now
UpdateSessionTimer(tm, key, t) ==
    IF \E i \in 1..Len(tm) : tm[i].key = key
    THEN [i \in 1..Len(tm) |-> IF tm[i].key = key THEN [key |-> key, t |-> t] ELSE tm[i]]
    ELSE Append(tm, [key |-> key, t |-> t])

\* _session_timers.pop(key, None)
TimerPop(tm, key) == SelectSeq(tm, LAMBDA e : e.key # key)

\* _check_session_timeout with the threshold itself counted as a timeout
CheckSessionTimeoutInclusive(tm, session_key, t) ==
    LET last_activity == TimerGet(tm, session_key)
    IN  IF last_activity = NoTimestamp THEN FALSE
        ELSE (t - last_activity) >= INACTIVITY_TIMEOUT_S

\* AgentLoop._check_session_timeout
CheckSessionTimeout(tm, session_key, t) ==
    LET last_activity == TimerGet(tm, session_key)
    IN  IF last_activity = NoTimestamp THEN FALSE
        ELSE (t - last_activity) > INACTIVITY_TIMEOUT_S

\* Phase D: the keys of the timer map that have timed out, in map order
TimedOutSessions(tm, t) ==
    LET sel == SelectSeq(tm, LAMBDA e : CheckSessionTimeout(tm, e.key, t))
    IN  [i \in 1..Len(sel) |-> sel[i].key]

-----------------------------------------------------------------------------
(* Background cognition: what a task holds *)

\* A message list held by a task: a copy of a list, or the list of the
\* Session object (key, gen) itself
ListCopy(msgs) == [live |-> FALSE, val |-> msgs, key |-> "", gen |-> 0]

ListOfSession(key, g) == [live |-> TRUE, val |-> <<>>, key |-> key, gen |-> g]

\* The messages of the Session object (key, g): the stored session of the key
\* while it is the current object, empty once that object was cleared
SessionMessages(sess, gens, key, g) == IF gens[key] = g THEN sess[key] ELSE <<>>

\* What a reader of the held list sees in the state (sess, gens)
Observed(h, sess, gens) ==
    IF h.live THEN SessionMessages(sess, gens, h.key, h.gen) ELSE h.val

\* A background task: kind, session key, position (ready: created and not yet
\* started), the messages it holds, and history: the reason of its session
\* end and the session's messages when that session end was scheduled
Task(kind, key, held, reason, sched, n) ==
    [kind |-> kind, key |-> key, st |-> "ready", msgs |-> held, reason |-> reason,
     sched |-> sched, n |-> n]

\* A wrapper that handles Exception only
CaughtExceptionOnly(exc) == exc = "Exception"

\* The except clauses of _schedule_background's wrapper
Caught(exc) == exc \in {"CancelledError", "Exception"}

\* AgentLoop._schedule_background: asyncio.create_task and _background_tasks.add
ScheduleBackground(tsk, task) == Append(tsk, task)

\* AgentLoop._on_session_end after the timer is removed: the tasks it creates
\* for the messages held in h
SessionEndTasks(job_models, key, reason, h, sched) ==
    <<Task("journal", key, h, reason, sched, 0)>>
    \o (IF Truthy(GetModelForJob(job_models, "distillation"))
        THEN <<Task("distill", key, h, reason, sched, 0)>> ELSE <<>>)
    \o (IF Truthy(GetModelForJob(job_models, "reflection"))
        THEN <<Task("reflect", key, h, reason, sched, 0)>> ELSE <<>>)

-----------------------------------------------------------------------------
(* Background cognition: journal *)

ToolNames(msgs) == {msgs[i].name : i \in {j \in 1..Len(msgs) : msgs[j].role = "tool"}}

CountRole(msgs, role) == Cardinality({i \in 1..Len(msgs) : msgs[i].role = role})

\* JournalStore.write_entry seen from _synthesize_journal: the journal after
\* the entry is written; unchanged when write_entry raises on blank content
WriteEntry(journal, content, key, tag) ==
    IF ~Truthy(content) \/ Strip(content) = <<>> THEN journal
    ELSE Append(journal, [key |-> key, tag |-> tag, content |-> content])

\* The deterministic summary of _synthesize_journal
FallbackSummary(key, msgs) ==
    <<"## Session: ", key, "User sent ", ToString(CountRole(msgs, "user")),
      "Agent responded ", ToString(CountRole(msgs, "assistant")),
      "Tools: ", IF ToolNames(msgs) = {} THEN "none" ELSE "some">>

-----------------------------------------------------------------------------
(* Background cognition: distillation *)

\* AtomicCandidate.validate
CandidateValid(c) ==
    /\ Truthy(c.title) /\ Strip(c.title) # <<>>
    /\ Truthy(c.content) /\ Strip(c.content) # <<>>
    /\ 0 <= c.confidence /\ c.confidence <= 100
    /\ c.type = "task" => Truthy(c.task_assignee) /\ Strip(c.task_assignee) # <<>>
    /\ c.type = "decision" =>
          ~(Truthy(c.decision_supersedes) /\ ~Truthy(c.decision_rationale))

\* AtomicCandidate.to_memory_params and the write_* call of
\* _commit_candidate_to_memory: the item written, by category
CandidateCategory(c) ==
    CASE c.type = "fact" -> "facts" [] c.type = "decision" -> "decisions"
      [] c.type = "goal" -> "goals" [] c.type = "task" -> "tasks"
      [] c.type = "reflection" -> "reflections"

\* if not params.get("assignee"): params["assignee"] = "distilled"
DistilledAssignee(assignee) ==
    IF ~Truthy(assignee) THEN <<"d", "i", "s", "t", "i", "l", "l", "e", "d">> ELSE assignee

CandidateMetadata(c) ==
    CASE c.type = "fact" -> [confidence |-> c.confidence, source |-> NoneS]
      [] c.type = "decision" ->
            [status |-> "active", supersedes |-> c.decision_supersedes,
             rationale |-> c.decision_rationale, scope |-> NoneS]
      [] c.type = "goal" -> [status |-> "active", priority |-> NoneS, horizon |-> NoneS]
      [] c.type = "task" ->
            [status |-> "open",
             assignee |-> Strip(DistilledAssignee(
                                    IF Truthy(c.task_assignee) THEN c.task_assignee
                                    ELSE <<"u", "n", "a", "s", "s", "i", "g", "n", "e", "d">>)),
             deadline |-> NoneS, priority |-> NoneS, related_goal |-> NoneS]
      [] c.type = "reflection" -> [context |-> NoneS]

\* A file name's random part that no stored file carries
FreshUuid(fs) == Cardinality(DOMAIN fs)

\* AgentLoop._commit_candidate_to_memory: the store after the write; a
\* ValueError of the write (blank content) is logged and leaves it unchanged
CommitCandidateToMemory(fs, c) ==
    IF Strip(c.content) = <<>> THEN fs
    ELSE WriteFile(fs, NewItem(CandidateCategory(c), c.title, c.content, <<>>,
                               CandidateMetadata(c)), FreshUuid(fs))

\* CandidateType
CandidateTypes == {"fact", "decision", "goal", "task", "reflection"}

\* The type field of an element of 'candidates' that is a JSON string and
\* not an object
NotADict == "<str>"

\* AtomicCandidate.from_dict raises: data.get on a string (AttributeError),
\* or CandidateType(...) on a value outside the enumeration (ValueError)
FromDictRaises(candidate_data) == candidate_data.type \notin CandidateTypes

\* The handler of the candidate's try block raises:
\* candidate_data.get("title", "unknown") on a string
HandlerRaises(candidate_data) == candidate_data.type = NotADict

\* The candidate loop of _distill_session: a candidate that from_dict or
\* validate rejects is skipped; an exception of the handler itself leaves
\* the loop and is caught by the try block around the model call
RECURSIVE CommitCandidates(_, _)
CommitCandidates(fs, cands) ==
    IF cands = <<>> THEN fs
    ELSE LET candidate_data == Head(cands)
         IN  IF FromDictRaises(candidate_data)
             THEN IF HandlerRaises(candidate_data) THEN fs
                  ELSE CommitCandidates(fs, Tail(cands))
             ELSE CommitCandidates(
                     IF CandidateValid(candidate_data)
                     THEN CommitCandidateToMemory(fs, candidate_data)
                     ELSE fs,
                     Tail(cands))

-----------------------------------------------------------------------------
(* Background cognition: reflection *)

ToolErrorIndicators ==
    {<<"e", "r", "r", "o", "r", ":">>,
     <<"f", "a", "i", "l", "e", "d">>,
     <<"e", "x", "c", "e", "p", "t", "i", "o", "n">>,
     <<"t", "r", "a", "c", "e", "b", "a", "c", "k">>}

CorrectionPatterns ==
    {<<"n", "o", ",">>,
     <<"t", "h", "a", "t", "'", "s", " ", "w", "r", "o", "n", "g">>,
     <<"i", " ", "m", "e", "a", "n", "t">>,
     <<"a", "c", "t", "u", "a", "l", "l", "y", ",">>,
     <<"n", "o", "t", " ">>,
     <<"w", "r", "o", "n", "g">>}

UncertaintyPatterns ==
    {<<"i", "'", "m", " ", "n", "o", "t", " ", "s", "u", "r", "e">>,
     <<"i", " ", "d", "o", "n", "'", "t", " ", "k", "n", "o", "w">>,
     <<"m", "i", "g", "h", "t", " ", "b", "e">>,
     <<"c", "o", "u", "l", "d", " ", "b", "e">>,
     <<"p", "o", "s", "s", "i", "b", "l", "y">>,
     <<"p", "e", "r", "h", "a", "p", "s">>,
     <<"i", " ", "t", "h", "i", "n", "k">>,
     <<"i", " ", "b", "e", "l", "i", "e", "v", "e">>,
     <<"u", "n", "c", "e", "r", "t", "a", "i", "n">>}

ReflectionCandidate(type, title, content, tool, error_pattern, frequency, impact, suggestion, session_context, user_correction) ==
    [type |-> type, title |-> title, content |-> content, tool_involved |-> tool,
     error_pattern |-> error_pattern, frequency |-> frequency, impact |-> impact,
     suggestion |-> suggestion, session_context |-> session_context,
     user_correction |-> user_correction]

\* AgentLoop._extract_tool_errors and the candidate made of each
ToolErrorReflections(msgs) ==
    LET hit(m) == /\ m.role = "tool"
                  /\ \E ind \in ToolErrorIndicators : Contains(Lower(m.content), ind)
        errs == SelectSeq(msgs, hit)
    IN  [i \in 1..Len(errs) |->
            ReflectionCandidate("mistake",
                <<"T", "o", "o", "l", " ", "f", "a", "i", "l", "u", "r", "e", ":", " ">> \o errs[i].name,
                <<"Tool ">> \o errs[i].name \o <<" failed with: ">>
                    \o Take(errs[i].content, 200),
                errs[i].name, Take(errs[i].content, 100), NoneS,
                IF Contains(Lower(errs[i].content), <<"e", "r", "r", "o", "r">>)
                THEN <<"high">> ELSE <<"medium">>,
                NoneS, <<"Tool call: ">> \o errs[i].name, FALSE)]

\* AgentLoop._extract_user_corrections and the candidate made of each
CorrectionReflections(msgs) ==
    LET hit(m) == /\ m.role = "user"
                  /\ \E pat \in CorrectionPatterns : Contains(Lower(m.content), pat)
        corr == SelectSeq(msgs, hit)
    IN  [i \in 1..Len(corr) |->
            ReflectionCandidate("mistake",
                <<"U", "s", "e", "r", " ", "c", "o", "r", "r", "e", "c", "t", "i", "o", "n", " ", "r", "e", "q", "u", "i", "r", "e", "d">>,
                <<"User corrected agent: ">> \o Take(corr[i].content, 200),
                NoneS, NoneS, NoneS, NoneS, <<"Review context before responding">>,
                <<"User correction">>, TRUE)]

\* AgentLoop._find_repeated_tool_calls and the candidate made of each: the
\* tools with three results or more, in the order of their first result
RepeatedToolReflections(msgs) ==
    LET count(name) == Cardinality({i \in 1..Len(msgs) :
                                      msgs[i].role = "tool" /\ msgs[i].name = name})
        first == {i \in 1..Len(msgs) :
                    /\ msgs[i].role = "tool"
                    /\ \A j \in 1..(i - 1) : ~(msgs[j].role = "tool" /\ msgs[j].name = msgs[i].name)
                    /\ count(msgs[i].name) >= 3}
        rep == SelectSeq([i \in 1..Len(msgs) |-> [i |-> i, m |-> msgs[i]]],
                         LAMBDA e : e.i \in first)
    IN  [i \in 1..Len(rep) |->
            ReflectionCandidate("pattern",
                <<"R", "e", "p", "e", "a", "t", "e", "d", " ", "t", "o", "o", "l", " ", "u", "s", "a", "g", "e", ":", " ">> \o rep[i].m.name,
                <<"Tool ">> \o rep[i].m.name \o <<" called ", ToString(count(rep[i].m.name)),
                                                 " times in session">>,
                rep[i].m.name, NoneS,
                <<ToString(count(rep[i].m.name)), " times in one session">>,
                <<"medium">>, <<"Consider caching or batching requests">>, NoneS, FALSE)]

\* AgentLoop._extract_uncertainty_markers and the candidate made of each
UncertaintyReflections(msgs) ==
    LET hit(m) == /\ m.role = "assistant"
                  /\ \E pat \in UncertaintyPatterns : Contains(Lower(m.content), pat)
        unc == SelectSeq(msgs, hit)
    IN  [i \in 1..Len(unc) |->
            ReflectionCandidate("uncertainty",
                <<"U", "n", "c", "e", "r", "t", "a", "i", "n", "t", "y", " ", "i", "n", " ", "G", "e", "n", "e", "r", "a", "l">>,
                <<"Agent expressed uncertainty: ">> \o Take(unc[i].content, 200),
                NoneS, NoneS, NoneS, NoneS,
                <<"Consider adding knowledge or clarifying questions">>,
                <<"Assistant uncertainty">>, FALSE)]

\* An analysis without the meta-synthesis over the mistakes
AnalyzeSessionNoSynthesis(msgs) ==
    ToolErrorReflections(msgs) \o CorrectionReflections(msgs)
        \o RepeatedToolReflections(msgs) \o UncertaintyReflections(msgs)

\* AgentLoop._analyze_session_for_reflections
AnalyzeSessionForReflections(msgs) ==
    LET found == ToolErrorReflections(msgs) \o CorrectionReflections(msgs)
                    \o RepeatedToolReflections(msgs) \o UncertaintyReflections(msgs)
        mistakes == SelectSeq(found, LAMBDA r : r.type = "mistake")
    IN  IF Len(mistakes) >= 2
        THEN Append(found,
                ReflectionCandidate("improvement",
                    <<"M", "u", "l", "t", "i", "p", "l", "e", " ", "f", "a", "i", "l", "u", "r", "e", "s", " ", "d", "e", "t", "e", "c", "t", "e", "d">>,
                    <<"Session had ", ToString(Len(mistakes)),
                      " mistakes - review error handling">>,
                    NoneS, NoneS, NoneS, <<"high">>,
                    <<"Improve error recovery or add validation">>, NoneS, FALSE))
        ELSE found

\* ReflectionCandidate.validate (the confidence is the default 1.0)
ReflectionValid(r) ==
    /\ Truthy(r.title) /\ Strip(r.title) # <<>>
    /\ Truthy(r.content) /\ Strip(r.content) # <<>>
    /\ r.type = "mistake" => Truthy(r.error_pattern)
    /\ r.type = "pattern" => Truthy(r.frequency)

\* "\n".join(parts)
RECURSIVE JoinLines(_)
JoinLines(parts) ==
    IF Len(parts) = 1 THEN parts[1]
    ELSE parts[1] \o <<"\n">> \o JoinLines(Tail(parts))

\* ReflectionCandidate.to_memory_params: the context text
ReflectionContext(r) ==
    LET parts ==
            (IF Truthy(r.session_context) THEN <<<<"Context: ">> \o r.session_context>> ELSE <<>>)
         \o (IF Truthy(r.tool_involved) THEN <<<<"Tool: ">> \o r.tool_involved>> ELSE <<>>)
         \o (IF Truthy(r.error_pattern) THEN <<<<"Error: ">> \o r.error_pattern>> ELSE <<>>)
         \o (IF Truthy(r.frequency) THEN <<<<"Frequency: ">> \o r.frequency>> ELSE <<>>)
         \o (IF Truthy(r.impact) THEN <<<<"Impact: ">> \o r.impact>> ELSE <<>>)
         \o (IF Truthy(r.suggestion) THEN <<<<"Suggestion: ">> \o r.suggestion>> ELSE <<>>)
         \o (IF r.user_correction THEN <<<<"User correction: yes">>>> ELSE <<>>)
    IN  IF parts = <<>> THEN NoneS ELSE JoinLines(parts)

\* AgentLoop._commit_reflection_to_memory
CommitReflectionToMemory(fs, r) ==
    IF Strip(r.content) = <<>> THEN fs
    ELSE WriteFile(fs, NewItem("reflections", r.title, r.content,
                               <<r.type, "reflection">>,
                               [context |-> ReflectionContext(r)]), FreshUuid(fs))

\* The commit loop of _reflect_on_session
RECURSIVE CommitReflections(_, _)
CommitReflections(fs, refl) ==
    IF refl = <<>> THEN fs
    ELSE CommitReflections(
            IF ReflectionValid(Head(refl)) THEN CommitReflectionToMemory(fs, Head(refl))
            ELSE fs,
            Tail(refl))

-----------------------------------------------------------------------------
(* Agent loop: the foreground *)

MaxTurns == 3

MaxTime == INACTIVITY_TIMEOUT_S + MaxClock

IdleFg ==
    [pc |-> "idle", key |-> "", messages |-> <<>>, skip |-> 0, iteration |-> 0,
     llm |-> 0, rounds |-> 0, calls |-> 0, tools_used |-> <<>>, executed |-> <<>>]

NoTurn ==
    [kind |-> "none", key |-> "", rounds |-> 0, calls |-> 0, llm |-> 0, appended |-> 0,
     answer |-> "none", response |-> <<>>, failures |-> 0, tools_used |-> <<>>,
     executed |-> <<>>]

Turn(kind, key, f, appended, answer, response) ==
    [kind |-> kind, key |-> key, rounds |-> f.rounds, calls |-> f.calls, llm |-> f.llm,
     appended |-> appended, answer |-> answer, response |-> response,
     failures |-> effects.failures, tools_used |-> f.tools_used,
     executed |-> f.executed]

\* A loop that runs while iteration <= max_iterations
LoopCondInclusive(iteration, max_iterations) == iteration <= max_iterations

\* The condition of the while loop of _run_agent_loop
LoopCond(iteration, max_iterations) == iteration < max_iterations

\* _run_agent_loop after the loop: the budget-exhausted message
FinalContent(final_content, iteration, max_iterations) ==
    IF final_content = NoneS /\ iteration >= max_iterations
    THEN BudgetText(max_iterations)
    ELSE final_content

\* session.messages itself, not a copy of it
MessagesAlias(key) == ListOfSession(key, gen[key])

\* list(session.messages) in the /new branch
MessagesSnapshot(key) == ListCopy(sessions[key])

\* messages_for_background of _on_session_end when no snapshot is passed
MessagesOfSession(session) == ListCopy(Observed(session, sessions, gen))

\* _process_message from Phase C on: save the turn, scan the timer map,
\* schedule a session end for every timed-out key, return the response.
\* f is the foreground's position when _run_agent_loop returned.
FinishTurn(f, messages, final_content, answer) ==
    LET response == IF final_content = NoneS THEN NoResponseText ELSE final_content
        saved    == SaveTurn(sessions[f.key], messages, f.skip, now)
        sess2    == [sessions EXCEPT ![f.key] = saved]
        tm2      == UpdateSessionTimer(timers, f.key, now)
        out      == TimedOutSessions(tm2, now)
    IN  /\ sessions' = sess2
        /\ timers' = tm2
        /\ tasks' = tasks \o
              [i \in 1..Len(out) |->
                  Task("session_end", out[i], ListOfSession(out[i], gen[out[i]]),
                       "timeout", sess2[out[i]], 0)]
        /\ endLog' = endLog \o
              [i \in 1..Len(out) |->
                  [key |-> out[i], reason |-> "timeout", since |-> TimerGet(tm2, out[i]),
                   at |-> now, n |-> Len(sess2[out[i]])]]
        /\ lastTurn' = Turn("chat", f.key, f, Len(saved) - Len(sessions[f.key]),
                            answer, response)
        /\ fg' = IdleFg

\* A command test on the text as it was sent
SlashCommandVerbatim(content) == content

\* cmd = msg.content.strip().lower()
SlashCommand(content) == Strip(Lower(content))

\* _process_message up to the first provider.chat call of Phase B
StartTurn(key, content) ==
    /\ fg.pc = "idle"
    /\ turns < MaxTurns
    /\ turns' = turns + 1
    /\ LET tm1 == UpdateSessionTimer(timers, key, now)
           cmd == SlashCommand(content)
       IN  IF cmd = <<"/", "n", "e", "w">>
           THEN /\ timers' = TimerPop(tm1, key)
                /\ tasks' = tasks \o SessionEndTasks(cfg.job_models, key, "explicit",
                                                     MessagesSnapshot(key), sessions[key])
                /\ endLog' = Append(endLog, [key |-> key, reason |-> "explicit",
                                             since |-> now, at |-> now, n |-> Len(sessions[key])])
                /\ sessions' = [sessions EXCEPT ![key] = <<>>]
                /\ gen' = [gen EXCEPT ![key] = @ + 1]
                /\ lastTurn' = Turn("new", key, IdleFg, 0, "none", NewSessionText)
                /\ UNCHANGED <<fg, llmLog>>
           ELSE IF cmd = <<"/", "h", "e", "l", "p">>
           THEN /\ timers' = tm1
                /\ lastTurn' = Turn("help", key, IdleFg, 0, "none", HelpText)
                /\ UNCHANGED <<fg, llmLog, tasks, endLog, sessions, gen>>
           ELSE LET history == GetHistory(sessions[key], MemoryWindow)
                    initial == BuildMessages(history, content)
                    model   == GetModelForJob(cfg.job_models, "interactive_response")
                    f0      == [IdleFg EXCEPT !.key = key, !.skip = 1 + Len(history)]
                IN  IF model = NoneS
                    THEN /\ FinishTurn(f0, <<>>, NoneS, "none")
                         /\ UNCHANGED <<llmLog, gen>>
                    ELSE IF LoopCond(0, cfg.max_iterations)
                    THEN /\ fg' = [f0 EXCEPT !.pc = "chat", !.messages = initial,
                                             !.iteration = 1, !.llm = 1]
                         /\ llmLog' = llmLog \cup
                               {[job |-> "interactive_response", model |-> model]}
                         /\ timers' = tm1
                         /\ UNCHANGED <<tasks, endLog, sessions, gen, lastTurn>>
                    ELSE /\ FinishTurn(f0, initial,
                                       FinalContent(NoneS, 0, cfg.max_iterations), "none")
                         /\ UNCHANGED <<llmLog, gen>>
    /\ UNCHANGED <<cfg, files, now, memResult, effects, escaped>>

RECURSIVE AddToolResults(_, _, _)
AddToolResults(messages, tool_calls, result) ==
    IF tool_calls = <<>> THEN messages
    ELSE AddToolResults(AddToolResult(messages, Head(tool_calls).id,
                                      Head(tool_calls).name, result),
                        Tail(tool_calls), result)

RECURSIVE RunToolCallsBackwards(_, _, _)
RECURSIVE RunToolCalls(_, _, _)

\* The for loop taken from the last tool call to the first
RunToolCallsBackwards(f, tool_calls, result) ==
    IF tool_calls = <<>> THEN f
    ELSE LET tool_call == tool_calls[Len(tool_calls)]
             f1 == [f EXCEPT !.tools_used = Append(@, tool_call.name),
                             !.executed = Append(@, [id |-> tool_call.id,
                                                     name |-> tool_call.name,
                                                     at |-> Len(f.messages)]),
                             !.messages = AddToolResult(@, tool_call.id,
                                                        tool_call.name, result)]
         IN  RunToolCallsBackwards(f1, SubSeq(tool_calls, 1, Len(tool_calls) - 1), result)

\* for tool_call in response.tool_calls: tools_used.append, tools.execute,
\* add_tool_result; executed records the length of the message list at the
\* moment tools.execute is called
RunToolCalls(f, tool_calls, result) ==
    IF tool_calls = <<>> THEN f
    ELSE LET tool_call == Head(tool_calls)
             f1 == [f EXCEPT !.tools_used = Append(@, tool_call.name),
                             !.executed = Append(@, [id |-> tool_call.id,
                                                     name |-> tool_call.name,
                                                     at |-> Len(f.messages)]),
                             !.messages = AddToolResult(@, tool_call.id,
                                                        tool_call.name, result)]
         IN  RunToolCalls(f1, Tail(tool_calls), result)

\* _run_agent_loop from the return of provider.chat to the next call of it, or
\* to the end of _process_message; every tool call of the round returns result
ChatReturn(response, result) ==
    /\ fg.pc = "chat"
    /\ IF response.tool_calls # <<>>
       THEN LET m1 == AddAssistantMessage(fg.messages, response.content,
                                          response.tool_calls, response.reasoning_content)
                f0 == RunToolCalls([fg EXCEPT !.messages = m1], response.tool_calls,
                                   result)
                m2 == f0.messages
                f1 == [f0 EXCEPT !.rounds = @ + 1,
                                 !.calls = @ + Len(response.tool_calls)]
            IN  IF LoopCond(fg.iteration, cfg.max_iterations)
                THEN /\ fg' = [f1 EXCEPT !.iteration = @ + 1, !.llm = @ + 1]
                     /\ UNCHANGED <<timers, tasks, endLog, sessions, lastTurn>>
                ELSE FinishTurn(f1, m2,
                                FinalContent(NoneS, fg.iteration, cfg.max_iterations),
                                "none")
       ELSE LET final_content == StripThink(response.content)
            IN  FinishTurn(fg, fg.messages,
                           FinalContent(final_content, fg.iteration, cfg.max_iterations),
                           IF final_content = NoneS THEN "empty" ELSE "text")
    /\ UNCHANGED <<cfg, files, now, memResult, turns, gen, llmLog, effects, escaped>>

\* The wall clock advances by d seconds.  The loop reads the clock at a turn's
\* start and at its end only, so time passes between turns.
Tick(d) ==
    /\ fg.pc = "idle"
    /\ now + d <= MaxTime
    /\ now' = now + d
    /\ UNCHANGED <<files, memResult, cfg, timers, sessions, gen, fg, turns, tasks,
                   endLog, llmLog, lastTurn, effects, escaped>>

-----------------------------------------------------------------------------
(* Agent loop: background tasks *)

Remove(seq, i) == SubSeq(seq, 1, i - 1) \o SubSeq(seq, i + 1, Len(seq))

\* The created task that the event loop starts next: the oldest one
NextReady ==
    LET ready == {i \in 1..Len(tasks) : tasks[i].st = "ready"}
    IN  IF ready = {} THEN 0 ELSE CHOOSE i \in ready : \A j \in ready : i <= j

\* A task ends: the finally clause of the wrapper discards it
Discard(i) == tasks' = Remove(tasks, i)

LogCall(job, model) == llmLog' = llmLog \cup {[job |-> job, model |-> model]}

\* The timeout session end: _on_session_end(session, reason="timeout")
RunSessionEnd(i) ==
    LET t == tasks[i] IN
    /\ timers' = TimerPop(timers, t.key)
    /\ tasks' = Remove(tasks, i) \o
          SessionEndTasks(cfg.job_models, t.key, "timeout", MessagesOfSession(t.msgs),
                          t.sched)
    /\ UNCHANGED <<files, llmLog, effects>>

\* _synthesize_journal up to its provider.chat call
StartJournal(i) ==
    LET t     == tasks[i]
        msgs  == Observed(t.msgs, sessions, gen)
        model == GetModelForJob(cfg.job_models, "journal_synthesis")
    IN  /\ IF msgs = <<>>
           THEN Discard(i) /\ UNCHANGED <<llmLog, effects>>
           ELSE IF Truthy(model)
           THEN /\ tasks' = [tasks EXCEPT ![i].st = "llm"]
                /\ LogCall("journal_synthesis", model)
                /\ UNCHANGED effects
           ELSE /\ Discard(i)
                /\ effects' = [effects EXCEPT !.journal =
                      WriteEntry(@, FallbackSummary(t.key, msgs), t.key, "fallback")]
                /\ UNCHANGED llmLog
        /\ UNCHANGED <<files, timers>>

\* _distill_session up to its provider.chat call
StartDistill(i) ==
    LET t     == tasks[i]
        msgs  == Observed(t.msgs, sessions, gen)
        model == GetModelForJob(cfg.job_models, "distillation")
    IN  /\ IF msgs = <<>> \/ ~Truthy(model)
           THEN Discard(i) /\ UNCHANGED llmLog
           ELSE /\ tasks' = [tasks EXCEPT ![i].st = "llm"]
                /\ LogCall("distillation", model)
        /\ UNCHANGED <<files, timers, effects>>

\* _reflect_on_session: it awaits nothing that suspends
RunReflect(i) ==
    LET t     == tasks[i]
        msgs  == Observed(t.msgs, sessions, gen)
        refl  == AnalyzeSessionForReflections(msgs)
        committed == Len(SelectSeq(refl, ReflectionValid))
    IN  /\ IF msgs = <<>> \/ refl = <<>>
           THEN Discard(i) /\ UNCHANGED files
           ELSE /\ files' = CommitReflections(files, refl)
                /\ IF committed > 0 /\ cfg.auto_promote
                   THEN tasks' = ScheduleBackground(Remove(tasks, i),
                                    Task("promote", t.key, t.msgs, t.reason, t.sched,
                                         Len(refl)))
                   ELSE Discard(i)
        /\ UNCHANGED <<timers, llmLog, effects>>

\* _promote_reflections_to_bootstrap up to the provider.chat call of
\* ReflectionPromoter.propose_edits_from_reflections
StartPromote(i) ==
    /\ tasks' = [tasks EXCEPT ![i].st = "llm"]
    /\ LogCall("promotion", PromoterModel(cfg.job_models))
    /\ UNCHANGED <<files, timers, effects>>

\* The event loop starts the oldest created task
BgStart ==
    /\ NextReady # 0
    /\ LET i == NextReady
           kind == tasks[i].kind
       IN  IF kind = "session_end" THEN RunSessionEnd(i)
           ELSE IF kind = "journal" THEN StartJournal(i)
           ELSE IF kind = "distill" THEN StartDistill(i)
           ELSE IF kind = "reflect" THEN RunReflect(i)
           ELSE StartPromote(i)
    /\ UNCHANGED <<now, memResult, cfg, sessions, gen, fg, turns, endLog, lastTurn, escaped>>

\* What an awaited provider.chat gives a task: an exception raised at the
\* await (exc), or a response with its content and the objects its JSON holds
ChatOutcome(exc, content, items) == [exc |-> exc, content |-> content, items |-> items]

\* content.find("{") and content.rfind("}"): the response carries a JSON object
HasJsonObject(content) ==
    LET json_start == IndexOf(content, "{", 1)
        ends       == {i \in 1..Len(content) : content[i] = "}"}
    IN  /\ json_start >= 1
        /\ ends # {}
        /\ \E e \in ends : e + 1 > json_start

\* _synthesize_journal from the return of provider.chat
\* The journal task without the fallback after the model call
ReturnJournalNoFallback(i, o) ==
    LET t       == tasks[i]
        content == StripThink(o.content)
    IN  /\ Discard(i)
        /\ effects' =
              IF o.exc = "none" /\ Truthy(content)
              THEN [effects EXCEPT !.journal = WriteEntry(@, content, t.key, "synthesis"),
                                   !.call = o]
              ELSE [effects EXCEPT
                      !.failures = IF o.exc = "none" THEN @ ELSE @ + 1,
                      !.call = o]
        /\ UNCHANGED <<files, llmLog>>

ReturnJournal(i, o) ==
    LET t       == tasks[i]
        msgs    == Observed(t.msgs, sessions, gen)
        content == StripThink(o.content)
    IN  /\ Discard(i)
        /\ effects' =
              IF o.exc = "none" /\ Truthy(content)
              THEN [effects EXCEPT !.journal = WriteEntry(@, content, t.key, "synthesis"),
                                   !.call = o]
              ELSE [effects EXCEPT
                      !.journal = WriteEntry(@, FallbackSummary(t.key, msgs), t.key, "fallback"),
                      !.failures = IF o.exc = "none" THEN @ ELSE @ + 1,
                      !.call = o]
        /\ UNCHANGED <<files, llmLog>>

\* _distill_session from the return of provider.chat
ReturnDistill(i, o) ==
    LET content == StripThink(o.content)
    IN  /\ Discard(i)
        /\ IF o.exc # "none"
           THEN /\ effects' = [effects EXCEPT !.failures = @ + 1, !.call = o]
                /\ UNCHANGED files
           ELSE /\ files' = IF Truthy(content) /\ HasJsonObject(content)
                            THEN CommitCandidates(files, o.items)
                            ELSE files
                /\ effects' = [effects EXCEPT !.call = o]
        /\ UNCHANGED llmLog

\* ReflectionPromoter.promote_reflections from the return of the proposal
\* call: an empty bootstrap file takes the first edit without a model call,
\* any other edit asks the model where to insert it
ReturnPromote(i, o) ==
    IF o.exc # "none"
    THEN /\ Discard(i)
         /\ effects' = [effects EXCEPT !.failures = @ + 1]
         /\ UNCHANGED llmLog
    ELSE IF ~Truthy(o.content) \/ ~HasJsonObject(o.content) \/ o.items = <<>>
    THEN Discard(i) /\ UNCHANGED <<effects, llmLog>>
    ELSE IF effects.bootstrap = 0
    THEN /\ Discard(i)
         /\ effects' = [effects EXCEPT !.bootstrap = @ + 1]
         /\ UNCHANGED llmLog
    ELSE /\ tasks' = [tasks EXCEPT ![i].st = "insert"]
         /\ LogCall("promotion", PromoterModel(cfg.job_models))
         /\ UNCHANGED effects

\* ReflectionPromoter._smart_insert from the return of provider.chat, and the
\* write of the bootstrap file: the model's text, or the append fallback
ReturnInsert(i, o) ==
    /\ Discard(i)
    /\ effects' = [effects EXCEPT !.bootstrap = @ + 1,
                                  !.failures = IF o.exc = "none" THEN @ ELSE @ + 1]
    /\ UNCHANGED llmLog

\* A task's awaited provider.chat completes with the outcome o.  A
\* CancelledError passes the task's own handlers and reaches the wrapper.
\* A cancellation that lets the first candidate of the response through
CancelledAfterFirstCommit(fs, o) ==
    IF o.items = <<>> THEN fs ELSE CommitCandidates(fs, <<Head(o.items)>>)

\* The store when CancelledError is raised at a task's await of
\* provider.chat: the statements after the await, the commit loop among
\* them, have not run
CancelledAtAwait(fs, o) == fs

\* task.cancel() on a task that has not started: CancelledError is thrown
\* into the wrapper before its try block, the coroutine never runs and the
\* finished task stays in _background_tasks
BgCancel(i) ==
    /\ i \in 1..Len(tasks)
    /\ tasks[i].st = "ready"
    /\ tasks' = [tasks EXCEPT ![i].st = "cancelled"]
    /\ UNCHANGED <<files, now, memResult, cfg, timers, sessions, gen, fg, turns, endLog,
                   llmLog, lastTurn, effects, escaped>>

BgReturn(i, o) ==
    /\ i \in 1..Len(tasks)
    /\ tasks[i].st \in {"llm", "insert"}
    /\ IF o.exc = "CancelledError"
       THEN /\ Discard(i)
            /\ effects' = [effects EXCEPT !.failures = @ + 1, !.call = o]
            /\ escaped' = (escaped \/ ~Caught(o.exc))
            /\ files' = CancelledAtAwait(files, o)
            /\ UNCHANGED llmLog
       ELSE /\ UNCHANGED escaped
            /\ IF tasks[i].kind = "journal" THEN ReturnJournal(i, o)
               ELSE IF tasks[i].kind = "distill" THEN ReturnDistill(i, o)
               ELSE IF tasks[i].st = "llm" THEN ReturnPromote(i, o) /\ UNCHANGED files
               ELSE ReturnInsert(i, o) /\ UNCHANGED files
    /\ UNCHANGED <<now, memResult, cfg, timers, sessions, gen, fg, turns, endLog, lastTurn>>

-----------------------------------------------------------------------------
(* Agent loop: construction *)

Keys == {"cli:A", "cli:B"}

\* A coroutine in process_direct that is not inside _process_message
IdleDirect == [pc |-> "idle", key |-> "", messages |-> <<>>, skip |-> 0, seen |-> 0]

\* The bus and run() before run() is called: _running is False, both queues
\* are empty; history: the messages run() has consumed, in order, and the
\* positions among them of those whose processing raised
IdleBus ==
    [running |-> FALSE, pc |-> "off", inbound |-> <<>>, outbound |-> <<>>,
     consumed |-> <<>>, raised |-> {}]

\* No edit of a bootstrap file was applied yet
NoEdit ==
    [target_file |-> "", section |-> <<>>, content |-> <<>>, before |-> <<>>,
     updated |-> <<>>, how |-> "none"]

Config(max_iterations, job_models, auto_promote) ==
    [max_iterations |-> max_iterations, job_models |-> job_models,
     auto_promote |-> auto_promote]

\* AgentLoop.__init__ for a configuration in configs, over the sessions that
\* the session store holds on disk
Init(configs, stored) ==
    /\ files = <<>>
    /\ now = 0
    /\ memResult = Result("init", "none", "ok")
    /\ cfg \in configs
    /\ timers = <<>>
    /\ sessions = stored
    /\ gen = [k \in Keys |-> 0]
    /\ fg = IdleFg
    /\ turns = 0
    /\ tasks = <<>>
    /\ endLog = <<>>
    /\ llmLog = {}
    /\ lastTurn = NoTurn
    /\ effects = [journal |-> <<>>, journal_dir |-> <<>>, bootstrap |-> 0, failures |-> 0,
                  workspace |-> <<>>, pending |-> <<>>, skipped |-> <<>>,
                  edit |-> NoEdit,
                  call |-> [exc |-> "none", content |-> NoneS, items |-> <<>>],
                  roundtrip |-> [done |-> FALSE, written |-> <<>>, read |-> {}],
                  direct |-> IdleDirect, bus |-> IdleBus]
    /\ escaped = FALSE

\* No session is stored yet
NoSessions == [k \in Keys |-> <<>>]

\* AgentLoop(...) with its defaults: max_iterations = 40
DefaultMaxIterations == 40

DefaultConfig == Config(DefaultMaxIterations, DefaultJobModels, FALSE)

-----------------------------------------------------------------------------
(* Specification SpecReflections: the reflections category under writes,   *)
(* update attempts and delete attempts.  The random part of a file name is *)
(* drawn from Uuids, so that two writes of one second can collide.         *)

ReflTitles == {<<"t">>}

ReflContents == {<<"a">>, <<"a", " ">>, <<" ">>}

ReflTags == {<<>>, <<"x">>}

ReflWrite ==
    /\ UNCHANGED loopVars
    /\ \E title \in ReflTitles, content \in ReflContents, tags \in ReflTags, uuid \in Uuids :
        WriteReflection(title, content, tags, NoneS, uuid)

ReflUpdate ==
    /\ UNCHANGED loopVars
    /\ \E id \in KnownIds("reflections") \cup {UnknownId},
       content \in {NoneS, <<"b">>}, title \in {NoneS, <<"u">>}, tags \in {NoneS, <<"x">>} :
        UpdateMemory("reflections", id, content, title, tags, <<>>)

ReflDelete ==
    /\ UNCHANGED loopVars
    /\ \E id \in KnownIds("reflections") \cup {UnknownId} :
        DeleteMemory("reflections", id)

ReflTick == TickMem /\ UNCHANGED loopVars

NextReflections == ReflWrite \/ ReflUpdate \/ ReflDelete \/ ReflTick

SpecReflections == Init({DefaultConfig}, NoSessions) /\ [][NextReflections]_vars

\* C1: across every step, each reflection file that exists still exists
\* afterwards under the same name, with the same id, title and content: the
\* set of reflection files only grows and no reflection's content changes.
ReflectionsAppendOnly ==
    [][\A p \in DOMAIN files :
          p.cat = "reflections" =>
              /\ p \in DOMAIN files'
              /\ files'[p].id = files[p].id
              /\ files'[p].title = files[p].title
              /\ files'[p].content = files[p].content]_vars

\* C1 witness: two reflections are stored and an update or delete attempt
\* on one of them has just been refused.
ReflectionsAttemptRefused ==
    /\ Cardinality({p \in DOMAIN files : p.cat = "reflections"}) = 2
    /\ memResult.op \in {"update_memory", "delete_memory"}
    /\ memResult.res = "ValueError"

-----------------------------------------------------------------------------
(* Specification SpecDecisions: the decisions category under writes,       *)
(* updates and delete attempts.                                            *)

DecTitles == {<<"t">>}

DecContents == {<<"a">>, <<"b">>}

DecWrite ==
    /\ UNCHANGED loopVars
    /\ \E title \in DecTitles, content \in DecContents,
       status \in {"active", "superseded", "draft"},
       supersedes \in KnownIds("decisions") \cup {NoneS},
       rationale \in {NoneS, <<"x">>}, uuid \in FreshUuids :
        WriteDecision(title, content, <<>>, status, supersedes, rationale, NoneS, uuid)

DecUpdate ==
    /\ UNCHANGED loopVars
    /\ \E id \in KnownIds("decisions") \cup {UnknownId},
       content \in {NoneS, <<"b">>},
       upd \in {<<>>} \cup {[supersedes |-> i] : i \in KnownIds("decisions")} :
        UpdateMemory("decisions", id, content, NoneS, NoneS, upd)

DecDelete ==
    /\ UNCHANGED loopVars
    /\ \E id \in KnownIds("decisions") \cup {UnknownId} :
        DeleteMemory("decisions", id)

DecTick == TickMem /\ UNCHANGED loopVars

NextDecisions == DecWrite \/ DecUpdate \/ DecDelete \/ DecTick

SpecDecisions == Init({DefaultConfig}, NoSessions) /\ [][NextDecisions]_vars

\* C2: across every step, each decision file that exists still exists
\* afterwards under the same name with the same id and content, and its
\* supersedes value is the one it was written with.
DecisionsImmutable ==
    [][\A p \in DOMAIN files :
          p.cat = "decisions" =>
              /\ p \in DOMAIN files'
              /\ files'[p].id = files[p].id
              /\ files'[p].content = files[p].content
              /\ files'[p].meta["supersedes"] = files[p].meta["supersedes"]]_vars

\* C2 witness: a stored decision has just been updated through update_memory.
DecisionUpdated ==
    /\ memResult = Result("update_memory", "decisions", "ok")
    /\ \E p \in DOMAIN files : p.cat = "decisions" /\ files[p].updated_at > files[p].created_at

-----------------------------------------------------------------------------
(* Specification SpecRefusals: reflections and decisions stored side by    *)
(* side, with update attempts on reflections and delete attempts on both,  *)
(* for stored ids and for an id no item has.                               *)

RefusalIds == KnownIds("reflections") \cup KnownIds("decisions") \cup {UnknownId}

RefusalUpdate ==
    /\ UNCHANGED loopVars
    /\ \E id \in RefusalIds, content \in {NoneS, <<"b">>}, title \in {NoneS, <<"u">>} :
        UpdateMemory("reflections", id, content, title, NoneS, <<>>)

RefusalDelete ==
    /\ UNCHANGED loopVars
    /\ \E category \in {"decisions", "reflections"}, id \in RefusalIds :
        DeleteMemory(category, id)

RefusalWriteReflection ==
    /\ UNCHANGED loopVars
    /\ \E uuid \in Uuids : WriteReflection(<<"t">>, <<"a">>, <<>>, NoneS, uuid)

RefusalWriteDecision ==
    /\ UNCHANGED loopVars
    /\ \E uuid \in FreshUuids :
        WriteDecision(<<"t">>, <<"a">>, <<>>, "active", NoneS, NoneS, NoneS, uuid)

RefusalTick == TickMem /\ UNCHANGED loopVars

NextRefusals ==
    RefusalWriteReflection \/ RefusalWriteDecision \/ RefusalUpdate \/ RefusalDelete \/ RefusalTick

SpecRefusals == Init({DefaultConfig}, NoSessions) /\ [][NextRefusals]_vars

\* A file of the category directory carries the id
ItemExists(category, id) == \E p \in DOMAIN files : p.cat = category /\ files[p].id = id

UnknownIdReturnedQuietly ==
    /\ memResult.res \in {"None", "False"}
    /\ memResult.cat \in {"decisions", "reflections"}
    /\ KnownIds(memResult.cat) # {}

-----------------------------------------------------------------------------
(* Specification SpecWrites: the five typed writes and update_memory over  *)
(* every category, with titles and contents that are blank, padded or      *)
(* plain, within one second of the clock.                                  *)

WriteTitles == {<<>>, <<"t">>}

WriteContents == {<<"a">>, <<" ", "a">>, <<" ">>}

WritesWrite ==
    /\ UNCHANGED loopVars
    /\ \E title \in WriteTitles, content \in WriteContents, uuid \in {FreshUuid(files)} :
        \/ WriteFact(title, content, <<>>, NoneS, NoneS, uuid)
        \/ \E supersedes \in KnownIds("decisions") \cup {NoneS}, rationale \in {NoneS, <<"x">>} :
              WriteDecision(title, content, <<>>, "active", supersedes, rationale, NoneS, uuid)
        \/ WriteGoal(title, content, <<>>, "active", NoneS, NoneS, uuid)
        \/ \E assignee \in {<<"m", "e">>, <<" ">>} :
              WriteTask(title, content, assignee, <<>>, "open", NoneS, NoneS, NoneS, uuid)
        \/ WriteReflection(title, content, <<>>, NoneS, uuid)

WritesUpdate ==
    /\ UNCHANGED loopVars
    /\ \E category \in MemoryCategory :
         \E id \in KnownIds(category) \cup {UnknownId},
            content \in {NoneS, <<"b">>} :
             UpdateMemory(category, id, content, NoneS, NoneS, <<>>)

NextWrites == WritesWrite \/ WritesUpdate

SpecWrites == Init({DefaultConfig}, NoSessions) /\ [][NextWrites]_vars

\* C11: the id of every stored item is the digest of its current title, a
\* colon and its current stored content.
IdIsDigestOfTitleAndContent ==
    \A p \in DOMAIN files : files[p].id = GenerateId(files[p].title, files[p].content)

\* C15: no step creates a file whose title or content is empty or
\* whitespace only, so every file a typed write creates has both.
WritesRejectBlankText ==
    [][\A p \in DOMAIN files' \ DOMAIN files :
          /\ Strip(files'[p].title) # <<>>
          /\ Strip(files'[p].content) # <<>>]_vars

\* C15: a typed write called with blank content has raised.
BlankContentRefused ==
    /\ memResult.res = "ValueError"
    /\ memResult.op \in {"write_fact", "write_decision", "write_goal", "write_task",
                          "write_reflection"}

\* C16: no step creates a decision file that names a superseded decision
\* and carries no rationale.
SupersedesNeedsRationale ==
    [][\A p \in DOMAIN files' \ DOMAIN files :
          p.cat = "decisions" =>
              ~(files'[p].meta["supersedes"] # NoneS /\ files'[p].meta["rationale"] = NoneS)]_vars

\* C16: a decision that supersedes another one is stored with its rationale.
SupersedingDecisionStored ==
    \E p \in DOMAIN files :
        /\ p.cat = "decisions"
        /\ files[p].meta["supersedes"] # NoneS /\ files[p].meta["rationale"] # NoneS

-----------------------------------------------------------------------------
(* Specification SpecTasks: tasks, goals and facts under writes, status    *)
(* changes and deletes, within one second of the clock.  Tasks are written *)
(* in_progress or done and none is made deferred, so that a task that is   *)
(* open was made so by a change from in_progress or done.  The random part *)
(* of a new file name repeats no stored one.                               *)

\* An os.urandom(6) value that no stored file name carries
UnusedUuid ==
    CHOOSE u \in 0..Cardinality(DOMAIN files) : \A p \in DOMAIN files : p.uuid # u

TasksWrite ==
    /\ UNCHANGED loopVars
    /\ \/ \E status \in {"in_progress", "done"} :
            WriteTask(<<"t">>, <<"a">>, <<"m", "e">>, <<>>, status, NoneS, NoneS, NoneS,
                      UnusedUuid)
       \/ \E status \in {"active", "achieved"} :
            WriteGoal(<<"t">>, <<"a">>, <<>>, status, NoneS, NoneS, UnusedUuid)
       \/ WriteFact(<<"t">>, <<"a">>, <<>>, NoneS, NoneS, UnusedUuid)

TasksStatus ==
    /\ UNCHANGED loopVars
    /\ \E task_id \in KnownIds("tasks") \cup {UnknownId},
          new_status \in {"open", "in_progress", "done", "bogus"} :
        UpdateTaskStatus(task_id, new_status)

TasksUpdate ==
    /\ UNCHANGED loopVars
    /\ \E id \in KnownIds("tasks"), status \in {"done", "bogus"} :
        UpdateMemory("tasks", id, NoneS, NoneS, NoneS, [status |-> status])

TasksDelete ==
    /\ UNCHANGED loopVars
    /\ \E category \in {"tasks", "goals", "facts"} :
         \E id \in KnownIds(category) \cup {UnknownId} : DeleteMemory(category, id)

NextTasks == TasksWrite \/ TasksStatus \/ TasksUpdate \/ TasksDelete

SpecTasks == Init({DefaultConfig}, NoSessions) /\ [][NextTasks]_vars

\* The status stored in the task file p
TaskStatusOf(fs, p) == fs[p].meta["status"]

\* C12: every change of a stored task's status follows the transition
\* graph, and a task that is done keeps that status.
TaskStatusFollowsGraph ==
    [][\A p \in DOMAIN files \cap DOMAIN files' :
          (p.cat = "tasks" /\ TaskStatusOf(files', p) # TaskStatusOf(files, p)) =>
              /\ TaskStatusOf(files, p) \in TaskStatus
              /\ TaskStatusOf(files', p) \in ValidTransitions(TaskStatusOf(files, p))]_vars

\* C12: a task is stored with a status that a change gave it.
TaskStatusChanged ==
    \E p \in DOMAIN files : p.cat = "tasks" /\ TaskStatusOf(files, p) = "open"

\* C37: the status of every stored task is one of open, in_progress, done
\* and deferred.
StoredTaskStatusIsInTheEnum ==
    \A p \in DOMAIN files : p.cat = "tasks" => TaskStatusOf(files, p) \in TaskStatus

\* C13: for every stored task and every requested status that is no
\* successor of the task's status in the graph, update_task_status is not
\* rejected and leaves the task stored with the requested status.
OutOfGraphTransitionApplied ==
    \A task_id \in KnownIds("tasks") : \A new_status \in TaskStatus :
        LET found == ReadMemory(files, "tasks", task_id)
            p     == CHOOSE q \in found : TRUE
        IN  (/\ found # {}
             /\ TaskStatusOf(files, p) \in TaskStatus
             /\ new_status \notin ValidTransitions(TaskStatusOf(files, p))) =>
                /\ ENABLED (/\ UpdateTaskStatus(task_id, new_status)
                            /\ memResult' = Result("update_task_status", "tasks", "ok")
                            /\ TaskStatusOf(files', p) = new_status)
                /\ ~ENABLED (/\ UpdateTaskStatus(task_id, new_status)
                             /\ memResult'.res # "ok")

\* C13 witness: update_task_status has returned the item of a task that is
\* now open, which no transition of the graph from in_progress or done gives.
TaskReopened ==
    /\ memResult = Result("update_task_status", "tasks", "ok")
    /\ \E p \in DOMAIN files :
          /\ p.cat = "tasks" /\ ~p.archived
          /\ TaskStatusOf(files, p) = "open"

-----------------------------------------------------------------------------
(* Specification SpecCommit: distillation candidates committed to the store *)

\* AtomicCandidate: the candidates a distillation may hand over, any of them
\* any number of times
CommitCandidateSet ==
    {[type |-> type, title |-> title, content |-> content, confidence |-> 100,
      task_assignee |-> IF type = "task" THEN <<"m", "e">> ELSE NoneS,
      decision_supersedes |-> NoneS, decision_rationale |-> NoneS] :
        type \in {"fact", "goal", "task"},
        title \in {<<"t">>, <<"u">>},
        content \in {<<"a">>, <<"b">>}}

\* One call of _commit_candidate_to_memory
CommitCandidate ==
    /\ RoomForFile
    /\ \E c \in CommitCandidateSet :
         /\ CandidateValid(c)
         /\ files' = CommitCandidateToMemory(files, c)
         /\ memResult' = Result("commit", CandidateCategory(c), "ok")
    /\ UNCHANGED now
    /\ UNCHANGED loopVars

SpecCommit == Init({DefaultConfig}, NoSessions) /\ [][CommitCandidate]_vars

\* C17: committing a candidate again creates no additional file: a category
\* directory never holds two files of the same title and content.
CommitIsIdempotent ==
    \A p, q \in DOMAIN files :
        (/\ p.cat = q.cat
         /\ files[p].title = files[q].title
         /\ files[p].content = files[q].content) => p = q

-----------------------------------------------------------------------------
(* Specification SpecTools: the write_task tool next to distillation commits *)

\* The "status" values of WriteTaskTool.parameters; "omitted" stands for a
\* call without the argument
ToolStatusEnum == {"pending", "in_progress", "completed", "archived"}

\* WriteTaskTool.execute's default: status: str = "pending"
ToolStatusArg(status) == IF status = "omitted" THEN "pending" ELSE status

\* status.value in write_task: a TaskStatus member has the attribute, a plain
\* str raises AttributeError
StatusHasValue(kind) == kind = "TaskStatus"

\* WriteTaskTool.execute: write_task is called with the str it was given;
\* every exception becomes the error string
WriteTaskToolExecute(title, content, assignee, status, uuid) ==
    LET arg == [kind |-> "str", value |-> ToolStatusArg(status)] IN
    /\ RoomForFile
    /\ IF WriteTaskRaises(content, assignee) \/ ~StatusHasValue(arg.kind)
       THEN /\ memResult' = Result("write_task_tool", "tasks", "Error saving task")
            /\ UNCHANGED files
       ELSE /\ files' = WriteTaskFiles(files, title, content, assignee, <<>>, arg.value,
                                       NoneS, NoneS, NoneS, uuid)
            /\ memResult' = Result("write_task_tool", "tasks", "Task saved")
    /\ UNCHANGED now

ToolTitles == {<<"t">>, <<"u">>}

ToolContents == {<<"a">>, <<" ", "b">>}

ToolWriteTask ==
    /\ UNCHANGED loopVars
    /\ \E title \in ToolTitles, content \in ToolContents \cup {<<" ">>} :
         \E status \in ToolStatusEnum \cup {"omitted"} :
            WriteTaskToolExecute(title, content, <<"m", "e">>, status, FreshUuid(files))

NextTools == ToolWriteTask \/ CommitCandidate

SpecTools == Init({DefaultConfig}, NoSessions) /\ [][NextTools]_vars

\* C18: with non-empty title, content and assignee, and the status omitted or
\* one of the schema's values, the write_task tool stores exactly one new
\* task file and returns the success string.
WriteTaskToolStoresTask ==
    RoomForFile =>
        \A title \in ToolTitles, content \in ToolContents :
            \A status \in ToolStatusEnum \cup {"omitted"} :
                ~ENABLED (/\ WriteTaskToolExecute(title, content, <<"m", "e">>, status,
                                                  FreshUuid(files))
                          /\ ~(/\ memResult'.res = "Task saved"
                               /\ \E p \in DOMAIN files' \ DOMAIN files :
                                     /\ p.cat = "tasks"
                                     /\ files'[p].title = title
                                     /\ DOMAIN files' = DOMAIN files \cup {p}
                                     /\ \A q \in DOMAIN files : files'[q] = files[q]))

-----------------------------------------------------------------------------
(* Specification SpecJournal: JournalStore.write_entry on the files of journal/ *)

\* Accepted write_entry calls the specification follows
MaxEntries == 3

\* date.strftime('%Y-%m-%d') for the days of one month
DateStr(date) == <<"2", "0", "2", "6", "-", "0", "1", "-", "0", ToString(date + 1)>>

\* The "name:" line and one "  - item" line per item; nothing for None or []
ListLines(name, items) ==
    IF items = <<>> THEN <<>>
    ELSE <<name \o <<":">>>> \o [i \in 1..Len(items) |-> <<" ", " ", "-", " ">> \o items[i]]

\* JournalStore._build_frontmatter
BuildFrontmatter(date, session_keys, tags) ==
    JoinLines(<<<<"-", "-", "-">>, <<"d", "a", "t", "e", ":", " ">> \o DateStr(date)>>
              \o ListLines(<<"s", "e", "s", "s", "i", "o", "n", "_", "k", "e", "y", "s">>,
                           session_keys)
              \o ListLines(<<"t", "a", "g", "s">>, tags)
              \o <<<<"-", "-", "-">>>>)

\* A store that writes the header on every call
NeedsFrontmatterAlways(dir, date) == TRUE

\* needs_frontmatter = not file_path.exists()
NeedsFrontmatter(dir, date) == date \notin DOMAIN dir

\* The ValueError test of write_entry
WriteEntryRaises(content) == content = <<>> \/ Strip(content) = <<>>

\* JournalStore.write_entry: journal/ after the call; mode "w" writes a new
\* file, mode "a" appends to the file that exists
JournalWriteEntry(dir, content, session_keys, tags, date) ==
    LET frontmatter  == BuildFrontmatter(date, session_keys, tags)
        full_content == IF NeedsFrontmatter(dir, date)
                        THEN frontmatter \o <<"\n", "\n">> \o Strip(content) \o <<"\n">>
                        ELSE <<"\n">> \o Strip(content) \o <<"\n">>
        text         == IF NeedsFrontmatter(dir, date) THEN full_content
                        ELSE dir[date] \o full_content
    IN  [d \in DOMAIN dir \cup {date} |-> IF d = date THEN text ELSE dir[d]]

JournalDates == {0, 1}

JournalContents == {<<"a">>, <<" ", "b", " ">>, <<" ">>, <<>>}

JournalKeys == {<<>>, <<<<"k">>>>}

JournalTags == {<<>>, <<<<"x">>, <<"y">>>>}

\* One write_entry call; effects.journal keeps the accepted calls in order
JournalWrite ==
    /\ Len(effects.journal) < MaxEntries
    /\ \E content \in JournalContents, session_keys \in JournalKeys, tags \in JournalTags :
         \E date \in JournalDates :
            IF WriteEntryRaises(content)
            THEN /\ memResult' = Result("write_entry", "journal", "ValueError")
                 /\ UNCHANGED effects
            ELSE /\ memResult' = Result("write_entry", "journal", "ok")
                 /\ effects' = [effects EXCEPT
                       !.journal_dir = JournalWriteEntry(@, content, session_keys, tags, date),
                       !.journal = Append(@, [date |-> date, content |-> content,
                                              session_keys |-> session_keys, tags |-> tags])]
    /\ UNCHANGED <<files, now, cfg, timers, sessions, gen, fg, turns, tasks, endLog,
                   llmLog, lastTurn, escaped>>

SpecJournal == Init({DefaultConfig}, NoSessions) /\ [][JournalWrite]_vars

\* The accepted calls for a date, in call order
EntriesOf(date) == SelectSeq(effects.journal, LAMBDA c : c.date = date)

\* Bodies in call order: each stripped body and a line end, a blank line
\* before every body but the first
RECURSIVE Bodies(_)
Bodies(calls) ==
    IF calls = <<>> THEN <<>>
    ELSE Strip(Head(calls).content) \o <<"\n">>
         \o (IF Tail(calls) = <<>> THEN <<>> ELSE <<"\n">> \o Bodies(Tail(calls)))

Occurrences(s, pat) ==
    Cardinality({i \in 1..(Len(s) - Len(pat) + 1) : SubSeq(s, i, i + Len(pat) - 1) = pat})

IsPrefix(s, t) == Len(s) <= Len(t) /\ SubSeq(t, 1, Len(s)) = s

\* C19: after any sequence of write_entry calls, a day's journal file is the
\* header of the first call, once and at the top, followed by the bodies in
\* call order; and every write leaves each file's previous content as a
\* prefix of its new content.
JournalIsAppendOnly ==
    /\ [](\A date \in JournalDates :
            LET calls == EntriesOf(date) IN
            /\ date \in DOMAIN effects.journal_dir <=> calls # <<>>
            /\ calls # <<>> =>
                  LET header == BuildFrontmatter(date, calls[1].session_keys, calls[1].tags)
                      text   == effects.journal_dir[date]
                  IN  /\ text = header \o <<"\n", "\n">> \o Bodies(calls)
                      /\ Occurrences(text, <<"d", "a", "t", "e", ":">>) = 1
                      /\ Occurrences(text, <<"-", "-", "-">>) = 2)
    /\ [][\A date \in DOMAIN effects.journal_dir :
            /\ date \in DOMAIN effects'.journal_dir
            /\ IsPrefix(effects.journal_dir[date], effects'.journal_dir[date])]_vars

\* C19 witness: a day's file holds two bodies after two calls for the date.
JournalAppended ==
    \E date \in DOMAIN effects.journal_dir :
        /\ Len(EntriesOf(date)) >= 2
        /\ memResult = Result("write_entry", "journal", "ok")

-----------------------------------------------------------------------------
(* Specification SpecReflect: _reflect_on_session over session snapshots *)

\* Messages of a snapshot
MaxMessages == 3

\* The turns a session is made of: failing results of two tools and a user
\* correction
SnapshotTurns ==
    {Message("tool", <<"e", "r", "r", "o", "r", ":">>, <<>>, <<"x">>),
     Message("tool", <<"f", "a", "i", "l", "e", "d">>, <<>>, <<"y">>),
     Message("user", <<"n", "o", ",">>, <<>>, <<>>)}

\* The session that is reflected on
ReflectKey == "cli:A"

\* A turn is saved to the session
SnapshotTurn ==
    /\ Len(sessions[ReflectKey]) < MaxMessages
    /\ \E m \in SnapshotTurns :
         sessions' = [sessions EXCEPT ![ReflectKey] = Append(@, m)]
    /\ UNCHANGED <<files, now, memResult, cfg, timers, gen, fg, turns, tasks, endLog,
                   llmLog, lastTurn, effects, escaped>>

\* The session ends: _reflect_on_session commits the valid reflections of
\* the analysis of its messages in order, and the session starts anew
ReflectOnSession ==
    /\ RoomForFile
    /\ sessions[ReflectKey] # <<>>
    /\ LET refl == AnalyzeSessionForReflections(sessions[ReflectKey]) IN
         /\ files' = IF refl = <<>> THEN files ELSE CommitReflections(files, refl)
         /\ memResult' = Result("reflect", "reflections",
                                ToString(Len(SelectSeq(refl, ReflectionValid))))
    /\ sessions' = [sessions EXCEPT ![ReflectKey] = <<>>]
    /\ UNCHANGED <<now, cfg, timers, gen, fg, turns, tasks, endLog, llmLog,
                   lastTurn, effects, escaped>>

NextReflect == SnapshotTurn \/ ReflectOnSession

SpecReflect == Init({DefaultConfig}, NoSessions) /\ [][NextReflect]_vars

\* The tool-role turns with error content are the snapshot's only triggers
OnlyToolErrorTriggers(msgs) ==
    /\ CorrectionReflections(msgs) = <<>>
    /\ RepeatedToolReflections(msgs) = <<>>
    /\ UncertaintyReflections(msgs) = <<>>

ReflectionFiles(fs, type) ==
    {p \in DOMAIN fs : p.cat = "reflections" /\ ~p.archived /\ fs[p].tags[1] = type}

\* C20: whatever the store holds, reflecting on a session whose only
\* triggers are n tool-role turns with error content adds n mistake files
\* and, when n >= 2, one improvement file, n + 1 new files in
\* memory/reflections; with fewer than 2 mistakes it adds no improvement.
ToolErrorsGiveMistakesAndImprovement ==
    [][(/\ sessions[ReflectKey] # <<>>
        /\ sessions'[ReflectKey] = <<>>
        /\ OnlyToolErrorTriggers(sessions[ReflectKey])) =>
            LET n   == Len(ToolErrorReflections(sessions[ReflectKey]))
                new == [p \in DOMAIN files' \ DOMAIN files |-> files'[p]]
            IN  /\ \A p \in DOMAIN files : p \in DOMAIN files' /\ files'[p] = files[p]
                /\ \A p \in DOMAIN new : p.cat = "reflections" /\ ~p.archived
                /\ Cardinality(ReflectionFiles(new, "mistake")) = n
                /\ n >= 2 => /\ Cardinality(DOMAIN new) = n + 1
                             /\ Cardinality(ReflectionFiles(new, "improvement")) = 1
                /\ n < 2 => /\ Cardinality(DOMAIN new) = n
                            /\ ReflectionFiles(new, "improvement") = {}]_vars

\* C32: reflecting on a session stores one mistake reflection, titled
\* "User correction required", for every user turn of the session that
\* contains a correction marker.
CorrectionsAreCommitted ==
    [][(sessions[ReflectKey] # <<>> /\ sessions'[ReflectKey] = <<>>) =>
          LET corr == CorrectionReflections(sessions[ReflectKey])
              new  == [p \in DOMAIN files' \ DOMAIN files |-> files'[p]]
          IN  /\ \A i \in 1..Len(corr) : corr[i].type = "mistake" /\ corr[i].user_correction
              /\ Cardinality({p \in ReflectionFiles(new, "mistake") :
                                 Take(new[p].title, 4) = <<"U", "s", "e", "r">>})
                    = Len(corr)]_vars

\* C20 witness: a reflection has stored two tool-failure mistakes and the
\* improvement, and no mistake of another kind.
ToolFailuresReflected ==
    /\ memResult = Result("reflect", "reflections", "3")
    /\ Cardinality(DOMAIN files) = 3
    /\ Cardinality({p \in ReflectionFiles(files, "mistake") :
                       Take(files[p].title, 4) = <<"T", "o", "o", "l">>}) = 2
    /\ Cardinality(ReflectionFiles(files, "improvement")) = 1

-----------------------------------------------------------------------------
(* Reflection promoter: proposals, edits of the bootstrap files, archiving *)

\* The keys of BOOTSTRAP_SECTIONS
BootstrapFiles == <<"AGENTS.md", "SOUL.md", "IDENTITY.md", "TOOLS.md">>

Range(s) == {s[i] : i \in 1..Len(s)}

\* BOOTSTRAP_SECTIONS.get(target_file, "")
BootstrapSection(target_file) ==
    CASE target_file = "AGENTS.md" -> <<"#", "#", " ", "S", "e", "l", "f", "-", "I", "m", "p", "r", "o", "v", "e", "m", "e", "n", "t", "s", " ", "f", "r", "o", "m", " ", "R", "e", "f", "l", "e", "c", "t", "i", "o", "n">>
      [] target_file = "SOUL.md" -> <<"#", "#", " ", "L", "e", "a", "r", "n", "e", "d", " ", "V", "a", "l", "u", "e", "s">>
      [] target_file = "IDENTITY.md" -> <<"#", "#", " ", "A", "d", "a", "p", "t", "e", "d", " ", "I", "d", "e", "n", "t", "i", "t", "y">>
      [] target_file = "TOOLS.md" -> <<"#", "#", " ", "L", "e", "a", "r", "n", "e", "d", " ", "T", "o", "o", "l", " ", "B", "e", "h", "a", "v", "i", "o", "r", "s">>
      [] OTHER -> <<>>

\* ReflectionPromoter.__init__: target_files or list(BOOTSTRAP_SECTIONS.keys())
TargetFiles(target_files) == IF target_files = <<>> THEN BootstrapFiles ELSE target_files

\* A validation that accepts every target file
ProposalValidAnyTarget(p) == Strip(p.content) # <<>> /\ p.reason # <<>>

\* BootstrapEditProposal.validate has no errors
ProposalValid(p) ==
    /\ p.target_file \in Range(BootstrapFiles)
    /\ Strip(p.content) # <<>>
    /\ p.reason # <<>>

\* BootstrapEditProposal(...) of one object of the "edits" array; the section
\* defaults to the file's section
Proposal(edit_data) ==
    [target_file |-> edit_data.target_file,
     section |-> IF edit_data.section = NoneS THEN BootstrapSection(edit_data.target_file)
                 ELSE edit_data.section,
     content |-> edit_data.content, reason |-> edit_data.reason]

\* ReflectionPromoter.propose_edits_from_reflections from the return of
\* provider.chat: the proposals that pass validate and the target filter, in
\* response order; an object without a required key raises KeyError and is
\* skipped
ProposeEdits(o, target_files) ==
    IF o.exc # "none" \/ ~Truthy(o.content) \/ ~HasJsonObject(o.content) THEN <<>>
    ELSE LET kept(d) == /\ d.has_keys
                        /\ ProposalValid(Proposal(d))
                        /\ d.target_file \in Range(target_files)
             edits == SelectSeq(o.items, kept)
         IN  [i \in 1..Len(edits) |-> Proposal(edits[i])]

\* str.split("\n")
RECURSIVE SplitLines(_)
SplitLines(text) ==
    LET i == IndexOf(text, "\n", 1) IN
    IF i = 0 THEN <<text>>
    ELSE <<SubSeq(text, 1, i - 1)>> \o SplitLines(SubSeq(text, i + 1, Len(text)))

\* line.startswith(prefix)
StartsWith(line, prefix) == Len(line) >= Len(prefix) /\ SubSeq(line, 1, Len(prefix)) = prefix

\* The loop of _append_to_section over the lines that are left
RECURSIVE AppendLoop(_, _, _, _)
AppendLoop(lines, section, content, in_section) ==
    IF lines = <<>>
    THEN IF in_section THEN <<<<>>, content, <<>>>> ELSE <<>>
    ELSE LET line == Head(lines) IN
         IF Strip(line) = section
         THEN <<line>> \o AppendLoop(Tail(lines), section, content, TRUE)
         ELSE IF in_section /\ StartsWith(line, <<"#", "#", " ">>)
         THEN <<<<>>, content, <<>>, line>> \o AppendLoop(Tail(lines), section, content, FALSE)
         ELSE <<line>> \o AppendLoop(Tail(lines), section, content, in_section)

\* ReflectionPromoter._append_to_section on the text of the file
AppendToSection(existing_content, section, content) ==
    IF Contains(existing_content, section)
    THEN JoinLines(AppendLoop(SplitLines(existing_content), section, content, FALSE))
    ELSE existing_content \o (IF existing_content # <<>> THEN <<"\n", "\n">> ELSE <<>>)
            \o section \o <<"\n", "\n">> \o content \o <<"\n">>

\* ReflectionPromoter._smart_insert from the return of provider.chat
SmartInsert(existing_content, section, content, o) ==
    IF existing_content = <<>> THEN section \o <<"\n", "\n">> \o content \o <<"\n">>
    ELSE IF o.exc = "none" /\ Truthy(o.content) /\ Strip(o.content) # <<>> THEN o.content
    ELSE AppendToSection(existing_content, section, content)

\* A file of the workspace: a bootstrap file, or its archive copy of a second
BootstrapPath(filename) == [name |-> filename, archived |-> NoTimestamp]

ArchivePath(filename, timestamp) == [name |-> filename, archived |-> timestamp]

\* ReflectionPromoter._read_bootstrap_file
ReadBootstrapFile(ws, filename) ==
    IF BootstrapPath(filename) \in DOMAIN ws THEN ws[BootstrapPath(filename)] ELSE <<>>

\* ReflectionPromoter._write_bootstrap_file
WriteBootstrapFile(ws, path, content) ==
    [p \in DOMAIN ws \cup {path} |-> IF p = path THEN content ELSE ws[p]]

\* keep_lines = int(self.max_file_lines * 0.8)
KeepLines(max_file_lines) == (max_file_lines * 8) \div 10

\* lines[-keep_lines:]
LastLines(lines, keep_lines) ==
    IF keep_lines = 0 \/ keep_lines >= Len(lines) THEN lines
    ELSE SubSeq(lines, Len(lines) - keep_lines + 1, Len(lines))

\* A size check that never archives
CheckFileSizeNever(ws, filename, max_file_lines, timestamp) == ws

\* ReflectionPromoter._check_file_size_and_archive at the given time
CheckFileSizeAndArchive(ws, filename, max_file_lines, timestamp) ==
    IF BootstrapPath(filename) \notin DOMAIN ws THEN ws
    ELSE LET lines == SplitLines(ws[BootstrapPath(filename)]) IN
         IF Len(lines) <= max_file_lines THEN ws
         ELSE WriteBootstrapFile(
                 WriteBootstrapFile(ws, ArchivePath(filename, timestamp),
                                    ws[BootstrapPath(filename)]),
                 BootstrapPath(filename),
                 JoinLines(LastLines(lines, KeepLines(max_file_lines))))

-----------------------------------------------------------------------------
(* Specification SpecPromote: promote_reflections, one await at a time *)

\* Edits applied in a run
MaxEdits == 3

\* ReflectionPromoter(max_file_lines=500)
DefaultMaxFileLines == 500

\* AgentLoop with a reflection_config: its target_files and max_file_lines
PromoterConfig(target_files, max_file_lines) ==
    [max_iterations |-> DefaultMaxIterations, job_models |-> DefaultJobModels,
     auto_promote |-> TRUE, target_files |-> target_files,
     max_file_lines |-> max_file_lines]

PromoterConfigs ==
    {PromoterConfig(t, m) :
        t \in {<<>>, <<"AGENTS.md">>, <<"SOUL.md", "X.md">>},
        m \in {1, 3, DefaultMaxFileLines}}

EditData(target_file, section, content, has_keys) ==
    [target_file |-> target_file, section |-> section, content |-> content,
     reason |-> <<"r">>, has_keys |-> has_keys]

\* The objects a response's "edits" array is made of
EditObjects ==
    {EditData("AGENTS.md", NoneS, <<"c">>, TRUE),
     EditData("AGENTS.md", <<"#", "#", " ", "A">>, <<"c">>, TRUE),
     EditData("SOUL.md", <<"#", "#", " ", "A">>, <<"d">>, TRUE),
     EditData("X.md", <<"#", "#", " ", "A">>, <<"c">>, TRUE),
     EditData("AGENTS.md", <<"#", "#", " ", "A">>, <<" ">>, TRUE),
     EditData("SOUL.md", <<"#", "#", " ", "A">>, <<"c">>, FALSE)}

ProposalOutcomes ==
    {ChatOutcome("Exception", NoneS, <<>>),
     ChatOutcome("none", <<"n", "o">>, <<>>)}
        \cup {ChatOutcome("none", <<"{", "}">>, items) :
                 items \in UNION {[1..n -> EditObjects] : n \in 0..2}}

\* What the placement call of _smart_insert returns
SmartOutcomes ==
    {ChatOutcome("Exception", NoneS, <<>>),
     ChatOutcome("none", <<" ">>, <<>>),
     ChatOutcome("none", <<"#", "#", " ", "A", "B", "\n", "x">>, <<>>)}

\* promote_reflections up to the return of propose_edits_from_reflections
PromotePropose ==
    /\ effects.pending = <<>>
    /\ effects.bootstrap < MaxEdits
    /\ \E o \in ProposalOutcomes :
         LET proposals == ProposeEdits(o, TargetFiles(cfg.target_files)) IN
         effects' = [effects EXCEPT
                       !.pending = proposals,
                       !.skipped = IF proposals = <<>> THEN <<>>
                                   ELSE SelectSeq(o.items,
                                            LAMBDA d : ~d.has_keys
                                                       \/ Proposal(d) \notin Range(proposals))]
    /\ UNCHANGED <<files, now, memResult, cfg, timers, sessions, gen, fg, turns, tasks,
                   endLog, llmLog, lastTurn, escaped>>

\* One round of apply_edits: the placement, the write and the size check
PromoteApply ==
    /\ effects.pending # <<>>
    /\ \E o \in SmartOutcomes :
         LET p       == Head(effects.pending)
             before  == ReadBootstrapFile(effects.workspace, p.target_file)
             updated == SmartInsert(before, p.section, p.content, o)
             written == WriteBootstrapFile(effects.workspace,
                                           BootstrapPath(p.target_file), updated)
             how     == IF before = <<>> THEN "new"
                        ELSE IF o.exc = "none" /\ Truthy(o.content) /\ Strip(o.content) # <<>>
                        THEN "llm" ELSE "append"
         IN  effects' = [effects EXCEPT
                 !.workspace = CheckFileSizeAndArchive(written, p.target_file,
                                                       cfg.max_file_lines, now),
                 !.pending = Tail(@),
                 !.bootstrap = @ + 1,
                 !.edit = [target_file |-> p.target_file, section |-> p.section,
                           content |-> p.content, before |-> before,
                           updated |-> updated, how |-> how]]
    /\ UNCHANGED <<files, now, memResult, cfg, timers, sessions, gen, fg, turns, tasks,
                   endLog, llmLog, lastTurn, escaped>>

NextPromote == PromotePropose \/ PromoteApply

SpecPromote == Init(PromoterConfigs, NoSessions) /\ [][NextPromote]_vars

\* The files the promoter may edit: its target_files among the bootstrap files
AllowedTargets == Range(BootstrapFiles) \cap Range(TargetFiles(cfg.target_files))

AcceptedEditUsesCanonicalSection ==
    /\ \A i \in 1..Len(effects.pending) :
          effects.pending[i].section = BootstrapSection(effects.pending[i].target_file)
    /\ effects.edit.how # "none" =>
          effects.edit.section = BootstrapSection(effects.edit.target_file)

\* C22: when the text written by an edit has more than max_file_lines lines,
\* the size check leaves an archive copy holding that text and the file
\* holding exactly its last int(0.8 * max_file_lines) lines, at most
\* max_file_lines lines; a text at or under the limit is left as written and
\* no archive is created.
ArchiveKeepsLastLines ==
    [][effects'.bootstrap = effects.bootstrap + 1 =>
          LET filename == effects'.edit.target_file
              lines    == SplitLines(effects'.edit.updated)
              keep     == (cfg.max_file_lines * 8) \div 10
              kept     == SubSeq(lines, Len(lines) - keep + 1, Len(lines))
              after    == effects'.workspace
          IN  IF Len(lines) > cfg.max_file_lines
              THEN /\ ArchivePath(filename, now) \in DOMAIN after
                   /\ after[ArchivePath(filename, now)] = effects'.edit.updated
                   /\ after[BootstrapPath(filename)] =
                         (IF kept = <<>> THEN <<>> ELSE JoinLines(kept))
                   /\ Len(SplitLines(after[BootstrapPath(filename)])) <= cfg.max_file_lines
              ELSE /\ after[BootstrapPath(filename)] = effects'.edit.updated
                   /\ DOMAIN after \ DOMAIN effects.workspace
                         \subseteq {BootstrapPath(filename)}]_vars

\* What C23 asks of the text _append_to_section returns
AppendAsClaimed(existing_content, section, content, result) ==
    LET lines == SplitLines(existing_content)
        out   == SplitLines(result)
        heads == {i \in 1..Len(lines) : Strip(lines[i]) = section}
    IN  IF heads # {}
        THEN LET h     == CHOOSE i \in heads : \A j \in heads : i <= j
                 nexts == {j \in (h + 1)..Len(lines) : StartsWith(lines[j], <<"#", "#", " ">>)}
                 k     == IF nexts = {} THEN Len(lines)
                          ELSE (CHOOSE i \in nexts : \A j \in nexts : i <= j) - 1
                 rest  == Len(lines) - k
                 ins   == SubSeq(out, k + 1, Len(out) - rest)
             IN  /\ Len(out) > Len(lines)
                 /\ SubSeq(out, 1, k) = SubSeq(lines, 1, k)
                 /\ SubSeq(out, Len(out) - rest + 1, Len(out)) = SubSeq(lines, k + 1, Len(lines))
                 /\ Cardinality({i \in 1..Len(ins) : ins[i] = content}) = 1
                 /\ \A i \in 1..Len(ins) : ins[i] \in {content, <<>>}
        ELSE result = existing_content
                        \o (IF existing_content # <<>> THEN <<"\n", "\n">> ELSE <<>>)
                        \o section \o <<"\n", "\n">> \o content \o <<"\n">>

\* C23: the text _append_to_section returns keeps every existing line in
\* order and holds the new content once: before the next "## " header after
\* the section's header, or at the end of the file, when the file has the
\* section's header, and in a new section at the end of the file otherwise.
AppendKeepsLinesAndAddsOnce ==
    [][(effects'.bootstrap = effects.bootstrap + 1 /\ effects'.edit.how = "append") =>
          AppendAsClaimed(effects'.edit.before, effects'.edit.section,
                          effects'.edit.content, effects'.edit.updated)]_vars

-----------------------------------------------------------------------------
(* Specification SpecTurn: one session, turn after turn, for every iteration *)
(* budget from 0 to MaxIterations and every kind of model answer.           *)

MaxIterations == 2

Response(content, tool_calls) ==
    [content |-> content, tool_calls |-> tool_calls, reasoning_content |-> FALSE]

ExecTool == <<"e", "x", "e", "c">>

TextResponse == Response(<<"o", "k">>, <<>>)

ThinkResponse == Response(<<"<think>", "x", "</think>", " ">>, <<>>)

ReadFileTool == <<"r", "e", "a", "d", "_", "f", "i", "l", "e">>

ToolCall(id, name) == [id |-> id, name |-> name]

ToolResponse == Response(<<>>, <<ToolCall("t1", ExecTool)>>)

TwoToolResponse ==
    [Response(<<"h", "m">>, <<ToolCall("t1", ExecTool), ToolCall("t2", ReadFileTool)>>)
        EXCEPT !.reasoning_content = TRUE]

ErrorResult == <<"E", "r", "r", "o", "r", ":">>

OkResult == <<"o", "k">>

UserText == <<"h", "i">>

NewCommand == <<" ", "/", "N", "e", "w">>

HelpCommand == <<"/", "h", "e", "l", "p">>

TurnConfigs == {Config(m, DefaultJobModels, FALSE) : m \in 0..MaxIterations}

TurnStart ==
    \E content \in {UserText, HelpCommand} : StartTurn("cli:A", content)

TurnChat ==
    \E response \in {TextResponse, ThinkResponse, ToolResponse, TwoToolResponse} :
        ChatReturn(response, OkResult)

NextTurn == TurnStart \/ TurnChat

SpecTurn == Init(TurnConfigs, NoSessions) /\ [][NextTurn]_vars

\* C3: a completed turn whose Phase B made r tool-call rounds with m tool
\* calls and then got a tool-call-free answer has appended m + r + 2 records
\* to the session.
TurnAppendsEveryRecord ==
    (lastTurn.kind = "chat" /\ lastTurn.answer = "text") =>
        lastTurn.appended = lastTurn.calls + lastTurn.rounds + 2

\* C3: a turn with one round of two tool calls ended with an answer.
AnsweredAfterToolRounds ==
    /\ lastTurn.kind = "chat" /\ lastTurn.answer = "text"
    /\ lastTurn.rounds = 1 /\ lastTurn.calls = 2

\* C10: Phase B never makes more than max_iterations model calls, a turn
\* that has used its budget ends at the next return of the model, and with
\* max_iterations = 0 a turn makes no call and answers with the
\* budget-exhausted message.
PhaseBWithinBudget ==
    /\ [](/\ fg.llm <= cfg.max_iterations
          /\ lastTurn.llm <= cfg.max_iterations
          /\ (cfg.max_iterations = 0 /\ lastTurn.kind = "chat") =>
                /\ lastTurn.llm = 0
                /\ lastTurn.response = BudgetText(0))
    /\ [][(fg.pc = "chat" /\ fg.llm >= cfg.max_iterations /\ fg' # fg) =>
             fg'.pc = "idle"]_vars

\* C10 witness: a turn used its whole budget of two calls on tool rounds and
\* returned the budget-exhausted message.
BudgetExhausted ==
    /\ cfg.max_iterations = 2
    /\ lastTurn.kind = "chat" /\ lastTurn.llm = 2 /\ lastTurn.rounds = 2
    /\ lastTurn.response = BudgetText(2)

\* C27: a turn whose last response carried no tool calls does not answer
\* with the budget-exhausted message; that message is the answer only when
\* every one of the max_iterations responses carried tool calls.
BudgetMessageOnlyAfterToolCalls ==
    lastTurn.kind = "chat" =>
        /\ lastTurn.answer # "none" => lastTurn.response # BudgetText(cfg.max_iterations)
        /\ lastTurn.response = BudgetText(cfg.max_iterations) =>
              /\ lastTurn.llm = cfg.max_iterations
              /\ lastTurn.rounds = cfg.max_iterations

\* From position from on, every assistant turn with k tool calls is followed
\* by exactly k tool-role turns that carry, in the order of the calls, the id
\* and the name of each call, and every tool-role turn is one of those.
ToolTurnsFollow(msgs, from) ==
    \A i \in from..Len(msgs) :
        /\ (msgs[i].role = "assistant" /\ msgs[i].tool_calls # <<>>) =>
              LET k == Len(msgs[i].tool_calls)
              IN  /\ i + k <= Len(msgs)
                  /\ \A j \in 1..k :
                        /\ msgs[i + j].role = "tool"
                        /\ msgs[i + j].tool_call_id = msgs[i].tool_calls[j].id
                        /\ msgs[i + j].name = msgs[i].tool_calls[j].name
                  /\ i + k + 1 <= Len(msgs) => msgs[i + k + 1].role # "tool"
        /\ msgs[i].role = "tool" =>
              \E a \in from..(i - 1) :
                  /\ msgs[a].role = "assistant"
                  /\ i - a <= Len(msgs[a].tool_calls)
                  /\ \A j \in (a + 1)..i : msgs[j].role = "tool"

\* The tool names of the tool-role turns, in their order
ToolTurnNames(msgs) ==
    LET sel == SelectSeq(msgs, LAMBDA m : m.role = "tool")
    IN  [i \in 1..Len(sel) |-> sel[i].name]

\* C28: in the list Phase B builds, and in the turns it saves, each assistant
\* turn with k tool calls is followed by exactly k tool-role turns with the
\* ids and names of the calls in call order; tools_used is the names in
\* execution order; every tool ran when its assistant turn was in the list.
ToolTurnsFollowTheirAssistantTurn ==
    /\ fg.pc = "chat" =>
          /\ ToolTurnsFollow(fg.messages, fg.skip + 1)
          /\ fg.tools_used =
                ToolTurnNames(SubSeq(fg.messages, fg.skip + 1, Len(fg.messages)))
          /\ fg.tools_used = [n \in 1..Len(fg.executed) |-> fg.executed[n].name]
          /\ \A n \in 1..Len(fg.executed) :
                LET e == fg.executed[n]
                IN  /\ fg.messages[e.at + 1].role = "tool"
                    /\ fg.messages[e.at + 1].tool_call_id = e.id
                    /\ \E a \in (fg.skip + 1)..e.at :
                          /\ fg.messages[a].role = "assistant"
                          /\ \E j \in 1..Len(fg.messages[a].tool_calls) :
                                /\ fg.messages[a].tool_calls[j] = [id |-> e.id, name |-> e.name]
                                /\ a + j = e.at + 1
                    /\ n > 1 => fg.executed[n - 1].at < e.at
    /\ \A key \in Keys : ToolTurnsFollow(sessions[key], 1)
    /\ lastTurn.kind = "chat" =>
          /\ lastTurn.appended <= Len(sessions[lastTurn.key])
          /\ lastTurn.tools_used =
                ToolTurnNames(SubSeq(sessions[lastTurn.key],
                                     Len(sessions[lastTurn.key]) - lastTurn.appended + 1,
                                     Len(sessions[lastTurn.key])))
          /\ Len(lastTurn.executed) = lastTurn.calls

\* C28 witness: a turn ran two tool calls of one response and then one of
\* the next, and its turns are saved.
ThreeToolsRanInOrder ==
    /\ lastTurn.kind = "chat"
    /\ lastTurn.tools_used = <<ExecTool, ReadFileTool, ExecTool>>
    /\ lastTurn.rounds = 2

-----------------------------------------------------------------------------
(* Specification SpecLoop: two sessions, the wall clock, session ends by    *)
(* /new and by inactivity, and the background tasks they start, under the   *)
(* default construction (no distillation model, no promotion).              *)

LoopConfigs == {Config(m, DefaultJobModels, FALSE) : m \in {0, 1}}

FactCandidate ==
    [type |-> "fact", title |-> <<"t">>, content |-> <<"a">>, confidence |-> 100,
     task_assignee |-> NoneS, decision_supersedes |-> NoneS,
     decision_rationale |-> NoneS]

JsonOutcome == ChatOutcome("none", <<"{", "}">>, <<FactCandidate>>)

LoopStart ==
    \E key \in Keys, content \in {UserText, NewCommand} : StartTurn(key, content)

LoopChat ==
    \E response \in {TextResponse, ToolResponse} : ChatReturn(response, ErrorResult)

LoopTick == \E d \in {INACTIVITY_TIMEOUT_S, INACTIVITY_TIMEOUT_S + 1} : Tick(d)

LoopBgReturn == \E i \in 1..Len(tasks) : BgReturn(i, JsonOutcome)

NextLoop == LoopStart \/ LoopChat \/ LoopTick \/ BgStart \/ LoopBgReturn

SpecLoop == Init(LoopConfigs, NoSessions) /\ [][NextLoop]_vars

\* C4: every journal, distillation and reflection task observes the
\* messages its session held when its session end was scheduled, whatever
\* the foreground has done to the session since.
TasksObserveScheduledMessages ==
    \A i \in 1..Len(tasks) :
        tasks[i].kind \in {"journal", "distill", "reflect"} =>
            Observed(tasks[i].msgs, sessions, gen) = tasks[i].sched

\* C4: a task of a timeout session end holds messages while its session has
\* been cleared since.
TimeoutTaskAfterClear ==
    \E i \in 1..Len(tasks) :
        /\ tasks[i].kind = "journal" /\ tasks[i].reason = "timeout"
        /\ tasks[i].sched # <<>>
        /\ gen[tasks[i].key] > 0

\* C5: a /new turn on a session of n messages starts exactly one session end,
\* of reason explicit, whose tasks hold a copy of those n messages, and leaves
\* the session stored under its key with no messages; the copy is not the
\* cleared list.
NewStartsOneExplicitEnd ==
    [][(turns' = turns + 1 /\ fg'.pc = "idle" /\ lastTurn'.kind = "new") =>
          LET key     == lastTurn'.key
              started == SubSeq(tasks', Len(tasks) + 1, Len(tasks'))
          IN  /\ Len(endLog') = Len(endLog) + 1
              /\ endLog'[Len(endLog')].key = key
              /\ endLog'[Len(endLog')].reason = "explicit"
              /\ endLog'[Len(endLog')].n = Len(sessions[key])
              /\ Cardinality({i \in 1..Len(started) : started[i].kind = "journal"}) = 1
              /\ \A i \in 1..Len(started) :
                    /\ started[i].key = key
                    /\ started[i].reason = "explicit"
                    /\ ~started[i].msgs.live
                    /\ Observed(started[i].msgs, sessions', gen') = sessions[key]
              /\ key \in DOMAIN sessions'
              /\ sessions'[key] = <<>>]_vars

\* C5 witness: /new has just cleared a session that held messages, and the
\* journal task of its session end holds them.
NewOnSessionWithMessages ==
    /\ lastTurn.kind = "new"
    /\ sessions[lastTurn.key] = <<>>
    /\ endLog # <<>>
    /\ endLog[Len(endLog)].reason = "explicit" /\ endLog[Len(endLog)].n > 0
    /\ \E i \in 1..Len(tasks) :
          /\ tasks[i].kind = "journal" /\ tasks[i].key = lastTurn.key
          /\ Len(Observed(tasks[i].msgs, sessions, gen)) = endLog[Len(endLog)].n

\* C6: no two timeout session ends are started for one idle period of a
\* session (the same key idle since the same last activity).
OneTimeoutEndPerIdlePeriod ==
    \A i, j \in 1..Len(endLog) :
        (/\ i < j
         /\ endLog[i].reason = "timeout" /\ endLog[j].reason = "timeout"
         /\ endLog[i].key = endLog[j].key) =>
            endLog[i].since # endLog[j].since

\* C6: a timeout session end was started for a session that another
\* session's turn found idle.
TimeoutEndStarted ==
    \E i \in 1..Len(endLog) :
        /\ endLog[i].reason = "timeout"
        /\ lastTurn.kind = "chat" /\ lastTurn.key # endLog[i].key

\* C7: a timeout session end is started only for a session idle for more
\* than INACTIVITY_TIMEOUT_S seconds; _check_session_timeout is False for a
\* key idle for exactly the threshold and for a key without a timer entry.
TimeoutOnlyBeyondThreshold ==
    /\ \A i \in 1..Len(endLog) :
          endLog[i].reason = "timeout" =>
              endLog[i].at - endLog[i].since > INACTIVITY_TIMEOUT_S
    /\ \A k \in Keys :
          /\ TimerGet(timers, k) = NoTimestamp => ~CheckSessionTimeout(timers, k, now)
          /\ (TimerGet(timers, k) # NoTimestamp
                /\ now - TimerGet(timers, k) = INACTIVITY_TIMEOUT_S) =>
                ~CheckSessionTimeout(timers, k, now)

\* C7 witness: a turn of one session has ended while the other session was
\* idle for exactly the threshold, and no session end was started for it.
IdleForExactlyTheThreshold ==
    \E k \in Keys :
        /\ TimerGet(timers, k) # NoTimestamp
        /\ now - TimerGet(timers, k) = INACTIVITY_TIMEOUT_S
        /\ fg.pc = "idle" /\ lastTurn.kind = "chat" /\ lastTurn.key # k
        /\ TimerGet(timers, lastTurn.key) = now
        /\ \A i \in 1..Len(endLog) : endLog[i].key # k

-----------------------------------------------------------------------------
(* Specification SpecCommands: two sessions, chat turns and the /new and    *)
(* /help commands, and the wall clock; the background tasks stay created.   *)

ShoutedHelpCommand == <<"/", "H", "E", "L", "P", " ">>

CommandsStart ==
    \E key \in Keys, content \in {UserText, NewCommand, HelpCommand, ShoutedHelpCommand} :
        StartTurn(key, content)

CommandsChat ==
    \E response \in {TextResponse, ToolResponse} : ChatReturn(response, OkResult)

CommandsTick == Tick(INACTIVITY_TIMEOUT_S + 1)

NextCommands == CommandsStart \/ CommandsChat \/ CommandsTick

SpecCommands == Init(LoopConfigs, NoSessions) /\ [][NextCommands]_vars

\* The text is /new or /help after strip() and lower()
IsCommandText(content) ==
    Strip(Lower(content)) \in {<<"/", "n", "e", "w">>, <<"/", "h", "e", "l", "p">>}

\* C24: a /new or /help turn ends in the step that takes it, with its fixed
\* answer, no model call and the foreground idle; no message of a session, of
\* a session-end snapshot or of the list sent to the model carries the text
\* of a command.
CommandsBypassTheModel ==
    /\ [](/\ \A key \in Keys : \A i \in 1..Len(sessions[key]) :
                ~IsCommandText(sessions[key][i].content)
          /\ \A i \in 1..Len(fg.messages) : ~IsCommandText(fg.messages[i].content)
          /\ \A t \in 1..Len(tasks) : \A i \in 1..Len(tasks[t].sched) :
                ~IsCommandText(tasks[t].sched[i].content)
          /\ lastTurn.kind \in {"new", "help"} =>
                /\ lastTurn.llm = 0 /\ lastTurn.appended = 0
                /\ lastTurn.response \in {NewSessionText, HelpText})
    /\ [][(turns' = turns + 1 /\ fg'.pc = "idle" /\ lastTurn'.kind \in {"new", "help"}) =>
             /\ llmLog' = llmLog
             /\ fg' = fg
             /\ \A key \in Keys : sessions'[key] \in {sessions[key], <<>>}
             /\ lastTurn'.kind = "help" => sessions' = sessions]_vars

\* C24 witness: /help was answered on a session that holds a saved chat
\* turn and nothing was added to it.
HelpAnsweredOnLiveSession ==
    /\ lastTurn.kind = "help"
    /\ Len(sessions[lastTurn.key]) = 2
    /\ fg.pc = "idle"

\* C26: every step that ends a turn, a /new or /help turn included, starts a
\* timeout session end for every key whose timer is older than the threshold.
EveryTurnScansTimers ==
    [][(fg'.pc = "idle" /\ (turns' = turns + 1 \/ fg.pc # "idle")) =>
          \A key \in Keys :
              CheckSessionTimeout(timers', key, now') =>
                  \E i \in (Len(endLog) + 1)..Len(endLog') :
                      endLog'[i].key = key /\ endLog'[i].reason = "timeout"]_vars

-----------------------------------------------------------------------------
(* Specification SpecIdle: two sessions whose messages arrive after any    *)
(* idle time, with model calls that themselves last longer than the        *)
(* inactivity threshold.                                                   *)

\* await provider.chat(...) of the running turn takes d seconds
ModelCallLasts(d) ==
    /\ fg.pc = "chat"
    /\ now + d <= MaxTime
    /\ now' = now + d
    /\ UNCHANGED <<files, memResult, cfg, timers, sessions, gen, fg, turns, tasks,
                   endLog, llmLog, lastTurn, effects, escaped>>

IdleStart == \E key \in Keys, content \in {UserText, HelpCommand} : StartTurn(key, content)

IdleChat == \E response \in {TextResponse, ToolResponse} : ChatReturn(response, OkResult)

IdleTick == \E d \in {INACTIVITY_TIMEOUT_S, INACTIVITY_TIMEOUT_S + 1} : Tick(d)

IdleCallLasts == ModelCallLasts(INACTIVITY_TIMEOUT_S + 1)

NextIdle == IdleStart \/ IdleChat \/ IdleTick \/ IdleCallLasts

SpecIdle == Init(LoopConfigs, NoSessions) /\ [][NextIdle]_vars

\* The session key of the message that the step processes
TurnKey == IF fg.pc = "chat" THEN fg.key ELSE IF fg'.pc = "chat" THEN fg'.key ELSE lastTurn'.key

\* C38: no step of a turn starts a timeout session end for the session of
\* the turn's own message, whatever the age of its timer when the message
\* arrived and however long the turn lasted; the session keeps the messages
\* it held and the turn's messages are added after them, and when the turn
\* ends the session's timer is not older than the threshold.
ReceivingSessionNotTimedOut ==
    [][(turns' = turns + 1 \/ fg.pc = "chat") =>
          /\ \A i \in (Len(endLog) + 1)..Len(endLog') :
                endLog'[i].reason = "timeout" => endLog'[i].key # TurnKey
          /\ \A i \in (Len(tasks) + 1)..Len(tasks') :
                tasks'[i].reason = "timeout" => tasks'[i].key # TurnKey
          /\ gen'[TurnKey] = gen[TurnKey]
          /\ Len(sessions'[TurnKey]) >= Len(sessions[TurnKey])
          /\ SubSeq(sessions'[TurnKey], 1, Len(sessions[TurnKey])) = sessions[TurnKey]
          /\ fg'.pc = "idle" => ~CheckSessionTimeout(timers', TurnKey, now')]_vars

\* C38 witness: a chat turn has just ended on a session that held a saved
\* turn and had been idle for longer than the threshold when its message
\* came; the session holds both turns.
IdleSessionTurnAppended ==
    /\ lastTurn.kind = "chat" /\ fg.pc = "idle"
    /\ Len(sessions[lastTurn.key]) = 4
    /\ now - sessions[lastTurn.key][2].timestamp > INACTIVITY_TIMEOUT_S
    /\ TimerGet(timers, lastTurn.key) = now

\* A turn whose model call lasted longer than the threshold has just ended.
LongTurnEnded ==
    /\ lastTurn.kind = "chat" /\ fg.pc = "idle"
    /\ Len(sessions[lastTurn.key]) = 2
    /\ now - sessions[lastTurn.key][1].timestamp > INACTIVITY_TIMEOUT_S

-----------------------------------------------------------------------------
(* Specification SpecCognition: the background tasks under every outcome of *)
(* their model calls, for constructions with and without a distillation     *)
(* model and with and without promotion.                                    *)

\* AgentJobModels records of a configuration file
JobModelConfigs ==
    {AgentJobModels,
     [AgentJobModels EXCEPT !.distillation = <<>>],
     [AgentJobModels EXCEPT !.distillation = <<" ">>],
     [AgentJobModels EXCEPT !.distillation = <<" ", "l">>]}

\* The _job_models a configuration file gives: get_model for every job class
JobModelsOf(c) == [j \in JobClass |-> GetModel(c, j, PrimaryModel)]

CognitionConfigs ==
    {Config(1, JobModelsOf(c), Truthy(JobModelsOf(c)["distillation"])) : c \in JobModelConfigs}
        \cup {Config(1, [DefaultJobModels EXCEPT !.distillation = <<>>], TRUE)}

ChatOutcomes ==
    {ChatOutcome("Exception", NoneS, <<>>),
     ChatOutcome("CancelledError", NoneS, <<>>),
     JsonOutcome}

\* What an earlier run stored for cli:A: a turn with one failed tool call
StoredSessions ==
    [NoSessions EXCEPT !["cli:A"] =
        SaveTurn(<<>>,
                 AddToolResults(
                    AddAssistantMessage(BuildMessages(<<>>, UserText), <<>>,
                                        <<ToolCall("t1", ExecTool)>>, FALSE),
                    <<ToolCall("t1", ExecTool)>>, ErrorResult),
                 1, 0)]

CognitionStart ==
    \E content \in {UserText, NewCommand} : StartTurn("cli:A", content)

CognitionChat == ChatReturn(ToolResponse, ErrorResult)

CognitionBgReturn == \E i \in 1..Len(tasks), o \in ChatOutcomes : BgReturn(i, o)

NextCognition == CognitionStart \/ CognitionChat \/ BgStart \/ CognitionBgReturn

SpecCognition == Init(CognitionConfigs, StoredSessions) /\ [][NextCognition]_vars

\* C8: a configuration file without a distillation model gives no model for
\* distillation, and while no distillation model is configured no
\* distillation task exists and no model call is made for distillation.
DistillationNeverFallsBack ==
    /\ \A c \in JobModelConfigs :
          (~Truthy(c.distillation) \/ Strip(c.distillation) = <<>>) =>
              GetModel(c, "distillation", PrimaryModel) = NoneS
    /\ ~Truthy(cfg.job_models["distillation"]) =>
          /\ \A i \in 1..Len(tasks) : tasks[i].kind # "distill"
          /\ \A call \in llmLog : call.job # "distillation"

\* C8 witness: without a distillation model, a session with messages has
\* ended and its journal task has called the model.
EndedWithoutDistillation ==
    /\ ~Truthy(cfg.job_models["distillation"])
    /\ \E i \in 1..Len(endLog) : endLog[i].n > 0
    /\ \E call \in llmLog : call.job = "journal_synthesis"
    /\ effects.journal # <<>>

-----------------------------------------------------------------------------
(* Specification SpecSessionEnd: the journal and distillation tasks of      *)
(* explicit session ends under every kind of answer of their model call,    *)
(* with and without a journal model.                                        *)

SessionEndConfigs ==
    {Config(1, [DefaultJobModels EXCEPT !.distillation = <<"l">>], FALSE),
     Config(1, [DefaultJobModels EXCEPT !.distillation = <<"l">>,
                                        !.journal_synthesis = <<>>], FALSE)}

OtherFactCandidate == [FactCandidate EXCEPT !.title = <<"u">>, !.content = <<"b">>]

BlankTitleCandidate == [FactCandidate EXCEPT !.title = <<" ">>]

UnknownTypeCandidate == [FactCandidate EXCEPT !.type = "note"]

StringCandidate == [FactCandidate EXCEPT !.type = NotADict]

\* A task candidate whose task_assignee key is absent
UnassignedTaskCandidate == [FactCandidate EXCEPT !.type = "task", !.title = <<"d", "o">>]

SessionEndOutcomes ==
    {ChatOutcome("Exception", NoneS, <<>>),
     ChatOutcome("CancelledError", NoneS, <<>>),
     ChatOutcome("none", <<>>, <<>>),
     ChatOutcome("none", <<"<think>", "x", "</think>">>, <<>>),
     ChatOutcome("none", <<"o", "k">>, <<>>),
     ChatOutcome("none", <<"{", "}">>,
                 <<FactCandidate, BlankTitleCandidate, UnknownTypeCandidate,
                   OtherFactCandidate>>),
     ChatOutcome("none", <<"{", "}">>, <<StringCandidate, FactCandidate>>),
     ChatOutcome("none", <<"{", "}">>, <<UnassignedTaskCandidate>>)}

SessionEndBgReturn ==
    \E i \in 1..Len(tasks), o \in SessionEndOutcomes : BgReturn(i, o)

NextSessionEnd == CognitionStart \/ CognitionChat \/ BgStart \/ SessionEndBgReturn

SpecSessionEnd == Init(SessionEndConfigs, StoredSessions) /\ [][NextSessionEnd]_vars

\* C29: the step that ends a journal task writes nothing for an empty
\* snapshot and otherwise exactly one entry for the session: the model's
\* text when the call returned text, and the deterministic summary when
\* there is no journal model, the call raised, or it returned nothing. A
\* task cancelled during its call writes nothing.
JournalTaskWritesOneEntry ==
    [][\A i \in 1..Len(tasks) :
          (tasks[i].kind = "journal" /\ tasks' = Remove(tasks, i)) =>
              LET t        == tasks[i]
                  msgs     == Observed(t.msgs, sessions, gen)
                  o        == effects'.call
                  text     == StripThink(o.content)
                  fallback == [key |-> t.key, tag |-> "fallback",
                               content |-> FallbackSummary(t.key, msgs)]
              IN  IF t.st = "ready"
                  THEN effects'.journal =
                          IF msgs = <<>> THEN effects.journal
                          ELSE Append(effects.journal, fallback)
                  ELSE IF o.exc = "CancelledError"
                  THEN effects'.journal = effects.journal
                  ELSE IF o.exc = "none" /\ text # NoneS
                  THEN effects'.journal =
                          Append(effects.journal,
                                 [key |-> t.key, tag |-> "synthesis", content |-> text])
                  ELSE effects'.journal = Append(effects.journal, fallback)]_vars

\* C29 witness: without a journal model a session end was journalled with
\* the deterministic summary and no model call was made for the journal.
JournalledWithoutModel ==
    /\ ~Truthy(cfg.job_models["journal_synthesis"])
    /\ Len(effects.journal) = 1 /\ effects.journal[1].tag = "fallback"
    /\ \A call \in llmLog : call.job # "journal_synthesis"

\* C29 witness: one session end was journalled with the model's text and
\* another, whose call raised, with the deterministic summary.
JournalledBothWays ==
    /\ effects.failures > 0
    /\ \E a, b \in 1..Len(effects.journal) :
          /\ effects.journal[a].tag = "synthesis"
          /\ effects.journal[b].tag = "fallback"
    /\ tasks = <<>>

\* Every candidate that parses and validates is committed, in order
RECURSIVE CommitEveryValid(_, _)
CommitEveryValid(fs, cands) ==
    IF cands = <<>> THEN fs
    ELSE CommitEveryValid(
            IF ~FromDictRaises(Head(cands)) /\ CandidateValid(Head(cands))
            THEN CommitCandidateToMemory(fs, Head(cands))
            ELSE fs,
            Tail(cands))

\* C30: the step that ends a distillation task commits every candidate of
\* the response that parses and validates, in response order, whatever the
\* other candidates are; a failed call or a response without a JSON object
\* commits nothing; no exception leaves the task.
DistillationCommitsEveryValidCandidate ==
    /\ [](~escaped)
    /\ [][\A i \in 1..Len(tasks) :
             (tasks[i].kind = "distill" /\ tasks[i].st = "llm"
                /\ tasks' = Remove(tasks, i)) =>
                 LET o    == effects'.call
                     text == StripThink(o.content)
                 IN  files' = IF o.exc = "none" /\ text # NoneS /\ HasJsonObject(text)
                              THEN CommitEveryValid(files, o.items)
                              ELSE files]_vars

\* C31: the step that ends a distillation task whose response holds a task
\* candidate without assignee stores that task with assignee "distilled".
DistilledTaskGetsAssignee ==
    [][\A i \in 1..Len(tasks) :
          (/\ tasks[i].kind = "distill" /\ tasks[i].st = "llm"
           /\ tasks' = Remove(tasks, i)
           /\ effects'.call.exc = "none"
           /\ \E n \in 1..Len(effects'.call.items) :
                 effects'.call.items[n] = UnassignedTaskCandidate) =>
              \E p \in DOMAIN files' :
                  /\ p.cat = "tasks"
                  /\ files'[p].title = UnassignedTaskCandidate.title
                  /\ files'[p].meta["assignee"] = <<"d", "i", "s", "t", "i", "l", "l", "e", "d">>]_vars

-----------------------------------------------------------------------------
(* Specification SpecOverlap: the coroutine of run() and a second coroutine *)
(* that calls process_direct, on two sessions, each suspended at its model  *)
(* call.                                                                    *)

\* process_direct: _process_message of the second coroutine up to the await
\* of provider.chat; seen is the length of the session when history is read
DirectStart(key, content) ==
    /\ effects.direct.pc = "idle"
    /\ turns < MaxTurns
    /\ LoopCond(0, cfg.max_iterations)
    /\ turns' = turns + 1
    /\ timers' = UpdateSessionTimer(timers, key, now)
    /\ LET history == GetHistory(sessions[key], MemoryWindow) IN
         effects' = [effects EXCEPT !.direct =
                       [pc |-> "chat", key |-> key,
                        messages |-> BuildMessages(history, content),
                        skip |-> 1 + Len(history), seen |-> Len(sessions[key])]]
    /\ LogCall("interactive_response",
               GetModelForJob(cfg.job_models, "interactive_response"))
    /\ UNCHANGED <<cfg, files, now, memResult, sessions, gen, fg, tasks, endLog,
                   lastTurn, escaped>>

\* The second coroutine's model call returns a response without tool
\* calls: Phase C and Phase D of its turn
DirectReturn ==
    /\ effects.direct.pc = "chat"
    /\ LET d     == effects.direct
           saved == SaveTurn(sessions[d.key], d.messages, d.skip, now)
           sess2 == [sessions EXCEPT ![d.key] = saved]
           tm2   == UpdateSessionTimer(timers, d.key, now)
           out   == TimedOutSessions(tm2, now)
       IN  /\ sessions' = sess2
           /\ timers' = tm2
           /\ tasks' = tasks \o
                 [i \in 1..Len(out) |->
                     Task("session_end", out[i], ListOfSession(out[i], gen[out[i]]),
                          "timeout", sess2[out[i]], 0)]
           /\ endLog' = endLog \o
                 [i \in 1..Len(out) |->
                     [key |-> out[i], reason |-> "timeout", since |-> TimerGet(tm2, out[i]),
                      at |-> now, n |-> Len(sess2[out[i]])]]
           /\ effects' = [effects EXCEPT !.direct = IdleDirect]
    /\ UNCHANGED <<cfg, files, now, memResult, gen, fg, turns, llmLog, lastTurn, escaped>>

OverlapStart == \E key \in Keys : StartTurn(key, UserText)

OverlapChat == \E response \in {TextResponse, ToolResponse} : ChatReturn(response, OkResult)

OverlapDirectStart == \E key \in Keys : DirectStart(key, UserText)

NextOverlap == OverlapStart \/ OverlapChat \/ OverlapDirectStart \/ DirectReturn

SpecOverlap == Init({Config(2, DefaultJobModels, FALSE)}, NoSessions) /\ [][NextOverlap]_vars

\* C34: no two turns of one session overlap: while a turn of a session is
\* between its Phase A and the end of its Phase C no other turn of that
\* session has started, and the session a turn saves to is as long as it
\* was when the turn read its history.
TurnsOfASessionDoNotOverlap ==
    /\ ~(fg.pc = "chat" /\ effects.direct.pc = "chat" /\ fg.key = effects.direct.key)
    /\ effects.direct.pc = "chat" =>
          Len(sessions[effects.direct.key]) = effects.direct.seen

-----------------------------------------------------------------------------
(* Specification SpecHandOff: session ends of a session that holds a user  *)
(* correction and a failed tool call, with promotion switched on.          *)

CorrectionText == <<"n", "o", ",">>

\* What an earlier run stored for cli:A: a correcting user turn with one
\* failed tool call
CorrectedSessions ==
    [NoSessions EXCEPT !["cli:A"] =
        SaveTurn(<<>>,
                 AddToolResults(
                    AddAssistantMessage(BuildMessages(<<>>, CorrectionText), <<>>,
                                        <<ToolCall("t1", ExecTool)>>, FALSE),
                    <<ToolCall("t1", ExecTool)>>, ErrorResult),
                 1, 0)]

HandOffStart == \E content \in {UserText, NewCommand} : StartTurn("cli:A", content)

HandOffChat == ChatReturn(ToolResponse, ErrorResult)

HandOffBgReturn ==
    \E i \in 1..Len(tasks), o \in {ChatOutcome("none", <<"{", "}">>, <<>>)} : BgReturn(i, o)

NextHandOff == HandOffStart \/ HandOffChat \/ BgStart \/ HandOffBgReturn

SpecHandOff == Init({Config(1, DefaultJobModels, TRUE)}, CorrectedSessions) /\ [][NextHandOff]_vars

\* C39: every promotion task is started with exactly the reflections of its
\* session that passed validate() and were committed: as many reflections
\* are handed to the promoter as the analysis of the session's messages
\* has valid ones.
PromoterGetsOnlyValidReflections ==
    [][\A j \in 1..Len(tasks') :
          (/\ tasks'[j].kind = "promote" /\ tasks'[j].st = "ready"
           /\ \A i \in 1..Len(tasks) : tasks[i] # tasks'[j]) =>
              tasks'[j].n =
                  Len(SelectSeq(AnalyzeSessionForReflections(
                                    Observed(tasks'[j].msgs, sessions, gen)),
                                ReflectionValid))]_vars

-----------------------------------------------------------------------------
(* Specification SpecCancel: the background tasks of explicit session ends, *)
(* each of which may be cancelled before it starts or at its model call.    *)

\* A model answer the cancellation comes instead of
CancelOutcomes ==
    {ChatOutcome("CancelledError", NoneS, <<FactCandidate, OtherFactCandidate>>),
     ChatOutcome("none", <<"{", "}">>, <<FactCandidate, BlankTitleCandidate,
                                        OtherFactCandidate>>)}

CancelBgReturn == \E i \in 1..Len(tasks), o \in CancelOutcomes : BgReturn(i, o)

CancelBgCancel ==
    \E i \in 1..Len(tasks) : tasks[i].kind \in {"distill", "reflect"} /\ BgCancel(i)

NextCancel ==
    CognitionStart \/ CognitionChat \/ BgStart \/ CancelBgReturn \/ CancelBgCancel

SpecCancel ==
    Init({Config(1, [DefaultJobModels EXCEPT !.distillation = <<"l">>], FALSE)},
         StoredSessions) /\ [][NextCancel]_vars

\* Task i is a distillation or reflection task that this step cancels
CancelsTask(i) ==
    /\ tasks[i].kind \in {"distill", "reflect"}
    /\ \/ tasks[i].st = "ready" /\ tasks' = [tasks EXCEPT ![i].st = "cancelled"]
       \/ /\ tasks[i].st = "llm" /\ tasks' = Remove(tasks, i)
          /\ effects'.call.exc = "CancelledError"

\* C35: a step that cancels a distillation or reflection task writes
\* nothing to the store, a step in which such a task writes to the store
\* writes all valid candidates of its batch, and no cancellation reaches the
\* event loop.
CancelLeavesNoPartialBatch ==
    /\ [](~escaped)
    /\ [][\A i \in 1..Len(tasks) :
             /\ CancelsTask(i) => files' = files
             /\ (/\ tasks[i].kind = "reflect" /\ Len(tasks') = Len(tasks) - 1
                 /\ tasks' = Remove(tasks, i)) =>
                   Cardinality(DOMAIN files' \ DOMAIN files) \in
                       {0, Len(SelectSeq(AnalyzeSessionForReflections(
                                            Observed(tasks[i].msgs, sessions, gen)),
                                         ReflectionValid))}
             /\ (/\ tasks[i].kind = "distill" /\ tasks[i].st = "llm"
                 /\ tasks' = Remove(tasks, i)) =>
                   Cardinality(DOMAIN files' \ DOMAIN files) \in
                       {0, Len(SelectSeq(effects'.call.items,
                                         LAMBDA c : ~FromDictRaises(c) /\ CandidateValid(c)))}]_vars

\* C35 witness: a distillation task was cancelled at its model call whose
\* response held candidates, a reflection task was cancelled before it
\* started, and the store holds the batch of another task.
CancelledMidCall ==
    /\ effects.call.exc = "CancelledError" /\ effects.call.items # <<>>
    /\ \E i \in 1..Len(tasks) : tasks[i].kind = "reflect" /\ tasks[i].st = "cancelled"
    /\ files # <<>>
    /\ \A i \in 1..Len(tasks) : tasks[i].st = "cancelled"

-----------------------------------------------------------------------------
(* Specification SpecRun: run() on a bus that channels fill with messages  *)
(* of two chats, with model calls that answer or raise, and stop() called  *)
(* at any moment.  run() is followed from await to await: the poll of the  *)
(* bus, _process_message, and the publication of the answer.               *)

InboundMessage(channel, chat_id, content) ==
    [channel |-> channel, chat_id |-> chat_id, content |-> content]

\* InboundMessage.session_key
SessionKey(msg) == msg.channel \o ":" \o msg.chat_id

\* OutboundMessage; history: n, the position of the inbound message it answers
OutboundMessage(channel, chat_id, kind, content, n) ==
    [channel |-> channel, chat_id |-> chat_id, kind |-> kind, content |-> content, n |-> n]

InboundMessages ==
    {InboundMessage("cli", "A", UserText), InboundMessage("cli", "B", UserText),
     InboundMessage("cli", "B", HelpCommand)}

\* An error answer that always goes to the first chat
ErrorReplyToFirstChat(msg, e, n) ==
    OutboundMessage(msg.channel, "A", "error", <<"Sorry, I encountered an error: ">> \o e, n)

\* The OutboundMessage of the except branch of run()
ErrorReply(msg, e, n) ==
    OutboundMessage(msg.channel, msg.chat_id, "error",
                    <<"Sorry, I encountered an error: ">> \o e, n)

\* The message run() is processing
CurrentMessage == effects.bus.consumed[Len(effects.bus.consumed)]

RunUnchanged ==
    UNCHANGED <<files, now, memResult, cfg, timers, sessions, gen, fg, turns, tasks,
                endLog, llmLog, lastTurn, escaped>>

\* A channel puts a message on the bus: bus.publish_inbound
PublishInbound ==
    /\ Len(effects.bus.inbound) + Len(effects.bus.consumed) < MaxTurns
    /\ \E msg \in InboundMessages :
         effects' = [effects EXCEPT !.bus.inbound = Append(@, msg)]
    /\ RunUnchanged

\* while self._running: the next position of run(), inside
\* wait_for(consume_inbound(), 1.0) or past the loop
WhileRunning(running) == IF running THEN "poll" ELSE "exited"

\* run() is called: self._running = True, up to await self._connect_mcp()
RunCalled ==
    /\ effects.bus.pc = "off"
    /\ effects' = [effects EXCEPT !.bus.running = TRUE, !.bus.pc = "connect"]
    /\ RunUnchanged

\* stop(): self._running = False
Stop ==
    /\ effects.bus.pc \notin {"off", "exited"}
    /\ effects.bus.running
    /\ effects' = [effects EXCEPT !.bus.running = FALSE]
    /\ RunUnchanged

\* _connect_mcp returns and the loop is entered or skipped
RunConnected ==
    /\ effects.bus.pc = "connect"
    /\ effects' = [effects EXCEPT !.bus.pc = WhileRunning(effects.bus.running)]
    /\ RunUnchanged

\* wait_for raises asyncio.TimeoutError on an empty bus: continue, and the
\* loop polls again or ends
RunTimeout ==
    /\ effects.bus.pc = "poll"
    /\ effects.bus.inbound = <<>>
    /\ effects' = [effects EXCEPT !.bus.pc = WhileRunning(effects.bus.running)]
    /\ RunUnchanged

\* wait_for returns the oldest inbound message
RunConsume ==
    /\ effects.bus.pc = "poll"
    /\ effects.bus.inbound # <<>>
    /\ effects' = [effects EXCEPT !.bus.pc = "msg",
                                  !.bus.consumed = Append(@, Head(effects.bus.inbound)),
                                  !.bus.inbound = Tail(@)]
    /\ RunUnchanged

\* _process_message(msg) up to its first model call, or to its return
RunProcess ==
    /\ effects.bus.pc = "msg"
    /\ turns < Len(effects.bus.consumed)
    /\ StartTurn(SessionKey(CurrentMessage), CurrentMessage.content)

\* The model answers the turn's call
RunChat ==
    /\ effects.bus.pc = "msg"
    /\ ChatReturn(TextResponse, OkResult)

\* The model call raises: the exception leaves _run_agent_loop and
\* _process_message, which have no handler, and the except branch of run()
\* publishes the error answer, after which the loop polls again or ends
RunRaise ==
    /\ effects.bus.pc = "msg"
    /\ fg.pc = "chat"
    /\ fg' = IdleFg
    /\ effects' = [effects EXCEPT
                      !.bus.pc = WhileRunning(effects.bus.running),
                      !.bus.raised = @ \cup {Len(effects.bus.consumed)},
                      !.bus.outbound = Append(@, ErrorReply(CurrentMessage, <<"boom">>,
                                                             Len(effects.bus.consumed)))]
    /\ UNCHANGED <<files, now, memResult, cfg, timers, sessions, gen, turns, tasks,
                   endLog, llmLog, lastTurn, escaped>>

\* _process_message has returned its response: bus.publish_outbound(response),
\* after which the loop polls again or ends
RunPublish ==
    /\ effects.bus.pc = "msg"
    /\ turns = Len(effects.bus.consumed)
    /\ fg.pc = "idle"
    /\ effects' = [effects EXCEPT
                      !.bus.pc = WhileRunning(effects.bus.running),
                      !.bus.outbound = Append(@, OutboundMessage(CurrentMessage.channel,
                                                  CurrentMessage.chat_id, "response",
                                                  lastTurn.response,
                                                  Len(effects.bus.consumed)))]
    /\ RunUnchanged

\* The steps of the coroutine run()
RunStep ==
    RunConnected \/ RunTimeout \/ RunConsume \/ RunProcess \/ RunChat \/ RunRaise \/ RunPublish

NextRun ==
    \/ PublishInbound \/ RunCalled \/ Stop \/ RunConnected \/ RunTimeout \/ RunConsume
    \/ RunProcess \/ RunChat \/ RunRaise \/ RunPublish

SpecRun ==
    Init({Config(1, DefaultJobModels, FALSE)}, NoSessions) /\ [][NextRun]_vars /\ WF_vars(RunStep)

\* The answers on the bus to the n-th consumed message
AnswersTo(n) == {i \in 1..Len(effects.bus.outbound) : effects.bus.outbound[i].n = n}

\* C40: a message whose processing raised has exactly one answer on the
\* bus, an error message to the message's channel and chat id; the step in
\* which the exception is raised leaves run() polling the bus again, with
\* the messages that wait on it, unless stop() was called; the messages
\* that wait on the bus are consumed unless stop() is called; once stop() is
\* called run() consumes at most the message of the poll it is in, and it
\* exits.
ErrorsAnsweredAndLoopGoesOn ==
    /\ [](\A n \in effects.bus.raised :
            /\ Cardinality(AnswersTo(n)) = 1
            /\ \A i \in AnswersTo(n) :
                  /\ effects.bus.outbound[i].kind = "error"
                  /\ effects.bus.outbound[i].channel = effects.bus.consumed[n].channel
                  /\ effects.bus.outbound[i].chat_id = effects.bus.consumed[n].chat_id)
    /\ [][(effects'.bus.raised # effects.bus.raised =>
              (/\ effects'.bus.pc = IF effects.bus.running THEN "poll" ELSE "exited"
               /\ effects'.bus.running = effects.bus.running
               /\ effects'.bus.inbound = effects.bus.inbound))
          /\ ((~effects.bus.running /\ effects.bus.pc \in {"connect", "msg"}) =>
                 effects'.bus.consumed = effects.bus.consumed)
          /\ (effects.bus.pc = "exited" => effects'.bus.pc = "exited")]_vars
    /\ (effects.bus.inbound # <<>> /\ effects.bus.pc # "off")
          ~> (effects.bus.inbound = <<>> \/ ~effects.bus.running)
    /\ (~effects.bus.running /\ effects.bus.pc # "off") ~> (effects.bus.pc = "exited")

\* C40 witness: the processing of the first message, of chat B, raised and
\* was answered with an error; the next message was consumed and answered;
\* stop() was called and run() has exited.
RaisedThenWentOn ==
    /\ effects.bus.raised = {1}
    /\ effects.bus.consumed[1].chat_id = "B"
    /\ Len(effects.bus.outbound) = 2
    /\ effects.bus.outbound[2].kind = "response"
    /\ effects.bus.pc = "exited"

-----------------------------------------------------------------------------
(* Specification SpecRoundTrip: every typed write with its category's       *)
(* attributes given, followed by read_memory with the id of the item the    *)
(* write returned.                                                          *)

\* read_memory(category, id=id): the items returned
ReadBack(fs, category, id) ==
    {ParseFrontmatter(fs[p], p) : p \in ReadMemory(fs, category, id)}

\* The write's returned item and the read that follows it
RoundTripRecord(item) ==
    effects' = [effects EXCEPT !.roundtrip =
                  IF memResult'.res = "ok"
                  THEN [done |-> TRUE, written |-> item,
                        read |-> ReadBack(files', item.category, item.id)]
                  ELSE @]

RoundTripTexts == {NoneS, <<"u">>}

RoundTripWrite ==
    /\ UNCHANGED <<cfg, timers, sessions, gen, fg, turns, tasks, endLog, llmLog,
                   lastTurn, escaped>>
    /\ \E title \in {<<"t">>, <<"T", " ", "t">>}, content \in {<<"a">>, <<" ", "a">>},
          tags \in {<<>>, <<<<"x">>>>}, text \in RoundTripTexts,
          uuid \in {FreshUuid(files)} :
        \/ /\ WriteFact(title, content, tags, 90, text, uuid)
           /\ RoundTripRecord(NewItem("facts", title, content, tags,
                                      [confidence |-> 90, source |-> text]))
        \/ /\ WriteDecision(title, content, tags, "active", NoneS, text, text, uuid)
           /\ RoundTripRecord(NewItem("decisions", title, content, tags,
                                      [status |-> "active", supersedes |-> NoneS,
                                       rationale |-> text, scope |-> text]))
        \/ /\ WriteGoal(title, content, tags, "active", text, text, uuid)
           /\ RoundTripRecord(NewItem("goals", title, content, tags,
                                      [status |-> "active", priority |-> text,
                                       horizon |-> text]))
        \/ /\ WriteTask(title, content, <<"m", "e">>, tags, "open", text, text, NoneS, uuid)
           /\ RoundTripRecord(NewItem("tasks", title, content, tags,
                                      [status |-> "open", assignee |-> <<"m", "e">>,
                                       deadline |-> text, priority |-> text,
                                       related_goal |-> NoneS]))
        \/ /\ WriteReflection(title, content, tags, text, uuid)
           /\ RoundTripRecord(NewItem("reflections", title, content, tags,
                                      [context |-> text]))

RoundTripTick == TickMem /\ UNCHANGED loopVars

NextRoundTrip == RoundTripWrite \/ RoundTripTick

SpecRoundTrip == Init({DefaultConfig}, NoSessions) /\ [][NextRoundTrip]_vars

\* C25: the item read back by id after a typed write is the written one in
\* id, category, title, content, tags, category-specific attributes and
\* both timestamps (the clock counts whole seconds).
RoundTripReturnsWrittenItem ==
    effects.roundtrip.done =>
        LET w == effects.roundtrip.written
        IN  /\ Cardinality(effects.roundtrip.read) = 1
            /\ \A r \in effects.roundtrip.read :
                  /\ r.id = w.id /\ r.category = w.category
                  /\ r.title = w.title /\ r.content = w.content
                  /\ r.tags = w.tags
                  /\ r.created_at = w.created_at /\ r.updated_at = w.updated_at
                  /\ DOMAIN r.metadata = DOMAIN w.metadata
                  /\ \A k \in DOMAIN w.metadata : r.metadata[k] = w.metadata[k]

====
